---- MODULE Spec2Model ----
(***************************************************************************)
(* Investment scoring and financial-modelling engine of btr-propflip.      *)
(*                                                                         *)
(* The engine is a library of calculations.  A state of the model is the   *)
(* last call made on it: the operation (op), its arguments (arg) and what  *)
(* it returned (res).  The one operation with a loop, the binary search of *)
(* calculate_max_purchase_price, runs step by step (pc, the loop's local   *)
(* variables and the list of prices it tried).                             *)
(*                                                                         *)
(* Arithmetic is exact.  Prices, square feet and table amounts are whole   *)
(* pounds; a computed amount of money is in pence (pounds x 100), written  *)
(* with the suffix _p where both units occur; a percentage rate r% is the  *)
(* integer r.  Python computes the same quantities in binary floating      *)
(* point.                                                                  *)
(***************************************************************************)
EXTENDS Integers, Sequences, FiniteSets, TLC

VARIABLES pc, op, arg, res,
          min_price, max_price, current_price, iter, gdv_result, profit_result, trials,
          service, called,
          calculator, earlier

vars == <<pc, op, arg, res, min_price, max_price, current_price, iter,
          gdv_result, profit_result, trials, service, called, calculator, earlier>>

search_vars == <<min_price, max_price, current_price, iter, gdv_result, profit_result, trials>>

geocode_vars == <<service, called>>

----------------------------------------------------------------------------
(* Bounds of the inputs                                                    *)

MaxPriceSteps == 16
MaxSqftSteps == 3
MaxQuantity == 2
MaxBedrooms == 3

MaxYears == 3

Max(a, b) == IF a >= b THEN a ELSE b
Min(a, b) == IF a <= b THEN a ELSE b
Abs(a) == IF a >= 0 THEN a ELSE -a

(* purchase prices, pounds: a grid of 125,000 steps and the spec's examples *)
Prices ==
  {k * 125000 : k \in 0..MaxPriceSteps} \cup {100000, 130000, 250001, 925000, 1500000}

SquareFeet == {500 * k : k \in 1..MaxSqftSteps}

----------------------------------------------------------------------------
(* transaction_costs: stamp duty table                                     *)

sdlt_thresholds == <<125000, 250000, 925000, 1500000>>
sdlt_rates == <<2, 5, 10, 12>>

(* the for loop of _calculate_sdlt from index i (1-based) onwards: the     *)
(* duty so far (pence) and what is left of the price when the loop ends    *)
RECURSIVE sdlt_loop(_, _, _)
sdlt_loop(i, sdlt, remaining) ==
  IF i > Len(sdlt_thresholds)
  THEN [sdlt |-> sdlt, remaining |-> remaining]
  ELSE LET band_size == IF i = 1 THEN sdlt_thresholds[1]
                        ELSE sdlt_thresholds[i] - sdlt_thresholds[i - 1]
       IN  IF remaining > band_size
           THEN sdlt_loop(i + 1, sdlt + band_size * sdlt_rates[i], remaining - band_size)
           ELSE [sdlt |-> sdlt + remaining * sdlt_rates[i], remaining |-> remaining]

(* BTRInvestmentCalculator._calculate_sdlt, in pence *)
calculate_sdlt(purchase_price) ==
  LET l == sdlt_loop(1, 0, purchase_price)
  IN  IF l.remaining > 0
      THEN l.sdlt + l.remaining * sdlt_rates[Len(sdlt_rates)]
      ELSE l.sdlt

(* scripts/fixed_btr_report_generator.py: calculate_stamp_duty             *)
bands == <<[threshold |-> 125000, rate |-> 2], [threshold |-> 250000, rate |-> 5],
           [threshold |-> 925000, rate |-> 10], [threshold |-> 1500000, rate |-> 12]>>

RECURSIVE stamp_duty_loop(_, _, _, _)
stamp_duty_loop(i, stamp_duty, remaining, previous_threshold) ==
  IF i > Len(bands) \/ remaining <= 0
  THEN [stamp_duty |-> stamp_duty, remaining |-> remaining]
  ELSE LET taxable == Min(remaining, bands[i].threshold - previous_threshold)
       IN  stamp_duty_loop(i + 1, stamp_duty + taxable * bands[i].rate,
                           remaining - taxable, bands[i].threshold)

(* the duty before int(): pence *)
stamp_duty_p(purchase_price, is_btr) ==
  LET l == stamp_duty_loop(1, 0, purchase_price, 0)
      banded == IF l.remaining > 0 THEN l.stamp_duty + l.remaining * 12 ELSE l.stamp_duty
  IN  IF is_btr THEN banded + purchase_price * 3 ELSE banded

(* int(stamp_duty): whole pounds, the pence dropped *)
calculate_stamp_duty(purchase_price, is_btr) == stamp_duty_p(purchase_price, is_btr) \div 100

----------------------------------------------------------------------------
(* BTRInvestmentCalculator.__init__: the tables of the calculator          *)

NoValue == "None"

(* an optional dict argument left out: None and the empty dict are both    *)
(* falsy, and the code tests these arguments only for truth                *)
NoDict == [k \in {} |-> 0]

(* d.get(key, default) on a dict modelled as a function *)
Get(d, key, default) == IF key \in DOMAIN d THEN d[key] ELSE default

(* pct per cent of x pence; exact when x * pct is a multiple of 100 *)
PctOf(x, pct) == (x \div 100) * pct + ((x % 100) * pct) \div 100

(* per mille of x pence; exact when x * pm is a multiple of 1000 *)
PerMilleOf(x, pm) == (x \div 1000) * pm + ((x % 1000) * pm) \div 1000

init_cost_benchmarks ==
  [light_refurb_psf |-> 75, medium_refurb_psf |-> 120, conversion_psf |-> 180,
   new_build_psf |-> 225, hmo_per_room |-> 30000, loft_extension_psf |-> 200,
   basement_psf |-> 250, kitchen |-> 15000, bathroom |-> 7500, rewiring |-> 5000,
   replumbing |-> 6000, painting_decorating_psf |-> 12, flooring_psf |-> 25,
   windows_per_unit |-> 800, roof_repair |-> 8000, new_roof |-> 15000,
   landscaping |-> 5000, driveway |-> 4500, new_boiler |-> 3500,
   new_heating_system |-> 8000]

(* cost_key.endswith('_psf') / cost_key.endswith('_per_room') *)
PsfKeys == {"light_refurb_psf", "medium_refurb_psf", "conversion_psf", "new_build_psf",
            "loft_extension_psf", "basement_psf", "painting_decorating_psf", "flooring_psf"}
PerRoomKeys == {"hmo_per_room"}

(* value_uplift_pct in per cent; the extension scenario has value_uplift_psf *)
init_scenarios ==
  [cosmetic_refurb |-> [costs |-> <<"painting_decorating_psf", "flooring_psf">>,
                        value_uplift_pct |-> 10],
   light_refurb    |-> [costs |-> <<"light_refurb_psf">>, value_uplift_pct |-> 15],
   medium_refurb   |-> [costs |-> <<"medium_refurb_psf">>, value_uplift_pct |-> 25],
   full_refurb     |-> [costs |-> <<"conversion_psf">>, value_uplift_pct |-> 35],
   extension       |-> [costs |-> <<"loft_extension_psf">>, value_uplift_psf |-> 550]]

(* rates in per cent, legal_costs in pounds *)
init_finance_settings ==
  [interest_rate |-> 14, loan_to_cost |-> 100, term_months |-> 12,
   arrangement_fee_pct |-> 1, exit_fee_pct |-> 1, legal_costs |-> 2000]

(* the stamp duty table is sdlt_thresholds and sdlt_rates above;           *)
(* selling_agent_pct 1.5% and selling_legal_pct 0.5% are in per mille      *)
init_transaction_costs ==
  [purchase_legal_pct |-> 1, purchase_legal_min |-> 1500, survey |-> 1000,
   selling_agent_pm |-> 15, selling_legal_pm |-> 5, selling_legal_min |-> 1000]

(* BTRInvestmentCalculator.rental_settings: rates in per cent, insurance   *)
(* in per mille, the void months per year (0.5) as the pair <<1, 2>>,      *)
(* service charge and ground rent in pounds                                *)
init_rental_settings ==
  [gross_yield |-> 5, management_fee_pct |-> 10, maintenance_pct |-> 10,
   void_months_per_year |-> <<1, 2>>, insurance_pm |-> 5,
   service_charge_psf |-> 3, ground_rent |-> 250]

BTRInvestmentCalculator ==
  [cost_benchmarks |-> init_cost_benchmarks,
   scenarios |-> init_scenarios,
   finance_settings |-> init_finance_settings,
   transaction_costs |-> init_transaction_costs,
   rental_settings |-> init_rental_settings]

(* self.cost_benchmarks, self.scenarios, self.finance_settings,            *)
(* self.transaction_costs and self.rental_settings as the methods read     *)
(* them                                                                    *)
cost_benchmarks == calculator.cost_benchmarks

scenarios == calculator.scenarios

finance_settings == calculator.finance_settings

transaction_costs == calculator.transaction_costs

rental_settings == calculator.rental_settings

----------------------------------------------------------------------------
(* BTRInvestmentCalculator.calculate_purchase_costs; amounts in pence.     *)
(* transaction_costs_pct divides by the purchase price.                    *)
calculate_purchase_costs(purchase_price) ==
  LET legal_cost == Max(purchase_price * transaction_costs.purchase_legal_pct,
                        transaction_costs.purchase_legal_min * 100)
      survey_cost == transaction_costs.survey * 100
      sdlt == calculate_sdlt(purchase_price)
      total_purchase_costs == legal_cost + survey_cost + sdlt
  IN  IF purchase_price = 0
      THEN [raised |-> "ZeroDivisionError"]
      ELSE [raised |-> NoValue,
            purchase_price |-> purchase_price,
            legal_costs |-> legal_cost,
            survey_costs |-> survey_cost,
            stamp_duty |-> sdlt,
            total_purchase_costs |-> purchase_price * 100 + total_purchase_costs,
            transaction_costs_pct |-> <<total_purchase_costs, purchase_price * 100>>]

(* one entry of the scenario's cost list, pounds *)
scenario_cost(cost_key, sqft, rooms) ==
  IF cost_key \in PsfKeys THEN cost_benchmarks[cost_key] * sqft
  ELSE IF cost_key \in PerRoomKeys THEN cost_benchmarks[cost_key] * rooms
  ELSE cost_benchmarks[cost_key]

RECURSIVE scenario_subtotal(_, _, _, _)
scenario_subtotal(costs, i, sqft, rooms) ==
  IF i > Len(costs) THEN 0
  ELSE scenario_cost(costs[i], sqft, rooms) + scenario_subtotal(costs, i + 1, sqft, rooms)

(* the custom works that are in the benchmark table; the others are skipped *)
priced_works(custom_works) == {w \in DOMAIN custom_works : w \in DOMAIN cost_benchmarks}

RECURSIVE custom_subtotal(_, _)
custom_subtotal(custom_works, works) ==
  IF works = {} THEN 0
  ELSE LET w == CHOOSE x \in works : TRUE
       IN  cost_benchmarks[w] * custom_works[w] + custom_subtotal(custom_works, works \ {w})

(* the costs dict: a custom work stored under a key of the scenario replaces it *)
cost_breakdown(scenario, custom_works, sqft, rooms) ==
  LET own == {scenario.costs[i] : i \in 1..Len(scenario.costs)}
  IN  [k \in own \cup priced_works(custom_works) |->
         IF k \in priced_works(custom_works)
         THEN cost_benchmarks[k] * custom_works[k]
         ELSE scenario_cost(k, sqft, rooms)]

contingency_pct == 10

professional_fees_pct_lower_for_extension(scenario_key) ==
  IF scenario_key \in {"full_refurb"} THEN 12 ELSE 5

professional_fees_pct(scenario_key) ==
  IF scenario_key \in {"full_refurb", "extension"} THEN 12 ELSE 5

(* BTRInvestmentCalculator.calculate_refurb_costs; custom_works is a dict  *)
(* (the empty one stands for None as well); subtotal in pounds, the        *)
(* amounts derived from it in pence                                        *)
calculate_refurb_costs(property_info, scenario_key, custom_works) ==
  IF scenario_key \notin DOMAIN scenarios
  THEN [raised |-> "ValueError"]
  ELSE
    LET scenario == scenarios[scenario_key]
        sqft == Get(property_info, "square_feet", 1000)
        rooms == Get(property_info, "rooms", 3)
        subtotal == scenario_subtotal(scenario.costs, 1, sqft, rooms)
                      + custom_subtotal(custom_works, priced_works(custom_works))
        contingency == subtotal * contingency_pct
        professional_fees == subtotal * professional_fees_pct(scenario_key)
        total_refurb == subtotal * 100 + contingency + professional_fees
    IN  IF sqft = 0
        THEN [raised |-> "ZeroDivisionError"]
        ELSE [raised |-> NoValue,
              scenario |-> scenario_key,
              square_feet |-> sqft,
              rooms |-> rooms,
              cost_breakdown |-> cost_breakdown(scenario, custom_works, sqft, rooms),
              subtotal |-> subtotal,
              contingency |-> contingency,
              professional_fees |-> professional_fees,
              total_refurb_cost |-> total_refurb,
              refurb_cost_psf |-> <<total_refurb, sqft>>]

overrides_formula_never(comparable_data) == FALSE

(* calculate_gdv: comparable_data and 'avg_price_psf' in comparable_data *)
overrides_formula(comparable_data) == "avg_price_psf" \in DOMAIN comparable_data

(* BTRInvestmentCalculator.calculate_gdv; comparable_data is a dict;      *)
(* gdv in pence.  The default extension is a quarter of the floor   *)
(* area, so the extension is counted in hundredths of a square foot.        *)
calculate_gdv(property_info, refurb_result, comparable_data) ==
  LET purchase_price == Get(property_info, "purchase_price", 0)
      sqft == Get(property_info, "square_feet", 1000)
      scenario_key == refurb_result.scenario
      scenario == scenarios[scenario_key]
      extension_sqft_c == IF "extension_sqft" \in DOMAIN property_info
                          THEN property_info.extension_sqft * 100
                          ELSE sqft * 25
      formula_gdv == IF scenario_key = "extension"
                     THEN purchase_price * 100 + extension_sqft_c * scenario.value_uplift_psf
                     ELSE purchase_price * (100 + scenario.value_uplift_pct)
      gdv == IF overrides_formula(comparable_data)
             THEN sqft * comparable_data.avg_price_psf * 100
             ELSE formula_gdv
  IN  IF purchase_price = 0 \/ sqft = 0
      THEN [raised |-> "ZeroDivisionError"]
      ELSE [raised |-> NoValue,
            purchase_price |-> purchase_price,
            refurb_cost |-> refurb_result.total_refurb_cost,
            gdv |-> gdv,
            value_uplift |-> gdv - purchase_price * 100,
            value_uplift_pct |-> <<gdv - purchase_price * 100, purchase_price * 100>>,
            gdv_psf |-> <<gdv, sqft>>]

calculator_after_financing_update(custom_finance_settings) ==
  [calculator EXCEPT !.finance_settings = custom_finance_settings @@ @]

(* calculate_financing_costs: settings = custom_finance_settings or        *)
(* self.finance_settings is read and never written, the calculator is the  *)
(* same after the call                                                     *)
calculator_after_financing(custom_finance_settings) == calculator

(* BTRInvestmentCalculator.calculate_financing_costs;                      *)
(* custom_finance_settings is NoValue or a dict, an empty dict is falsy    *)
calculate_financing_costs(purchase_costs, refurb_costs, custom_finance_settings) ==
  LET settings == IF DOMAIN custom_finance_settings = {}
                  THEN finance_settings ELSE custom_finance_settings
      total_project_cost == purchase_costs.total_purchase_costs + refurb_costs.total_refurb_cost
      loan_to_cost == Get(settings, "loan_to_cost", finance_settings.loan_to_cost)
      loan_amount == PctOf(total_project_cost, loan_to_cost)
      arrangement_fee == PctOf(loan_amount, Get(settings, "arrangement_fee_pct",
                                                finance_settings.arrangement_fee_pct))
      exit_fee == PctOf(loan_amount, Get(settings, "exit_fee_pct",
                                         finance_settings.exit_fee_pct))
      legal_costs == Get(settings, "legal_costs", finance_settings.legal_costs) * 100
      interest_rate == Get(settings, "interest_rate", finance_settings.interest_rate)
      term_months == Get(settings, "term_months", finance_settings.term_months)
      annual_interest == PctOf(loan_amount, interest_rate)
      interest_cost == (annual_interest * term_months) \div 12
      total_finance_cost == arrangement_fee + exit_fee + legal_costs + interest_cost
  IN  IF loan_amount = 0
      THEN [raised |-> "ZeroDivisionError"]
      ELSE [raised |-> NoValue,
            total_project_cost |-> total_project_cost,
            loan_amount |-> loan_amount,
            equity_required |-> total_project_cost - loan_amount,
            arrangement_fee |-> arrangement_fee,
            exit_fee |-> exit_fee,
            legal_costs |-> legal_costs,
            interest_cost |-> interest_cost,
            total_finance_cost |-> total_finance_cost,
            finance_cost_pct |-> <<total_finance_cost, loan_amount>>]

(* BTRInvestmentCalculator.calculate_selling_costs; gdv in pence *)
calculate_selling_costs(gdv) ==
  LET agent_fee == PerMilleOf(gdv, transaction_costs.selling_agent_pm)
      legal_cost == Max(PerMilleOf(gdv, transaction_costs.selling_legal_pm),
                        transaction_costs.selling_legal_min * 100)
      total_selling_costs == agent_fee + legal_cost
  IN  IF gdv = 0
      THEN [raised |-> "ZeroDivisionError"]
      ELSE [raised |-> NoValue,
            agent_fee |-> agent_fee,
            legal_costs |-> legal_cost,
            total_selling_costs |-> total_selling_costs,
            selling_costs_pct |-> <<total_selling_costs, gdv>>]

(* A ratio a / b is kept as the pair <<a, b>> with b > 0, and so is the   *)
(* target profit (25% is <<1, 4>>).                                         *)
(* current_profit > target_profit *)
RatioAbove(r, t) == r[1] * t[2] > t[1] * r[2]

(* a / b <= c / d for a, c >= 0 and b, d > 0, by continued fractions: no   *)
(* product of two amounts is formed                                        *)
RECURSIVE RatLeq(_, _, _, _)
RatLeq(a, b, c, d) ==
  LET qa == a \div b
      qc == c \div d
      ra == a % b
      rc == c % d
  IN  IF qa # qc THEN qa < qc
      ELSE IF ra = 0 THEN TRUE
      ELSE IF rc = 0 THEN FALSE
      ELSE RatLeq(d, rc, b, ra)

WithinTolerance_of_one_point(r, t) ==
  Abs(r[1] * t[2] - t[1] * r[2]) <= (t[2] * r[2] - 1) \div 100

(* abs(current_profit - target_profit) < 0.005, 0.005 being 1 / 200 *)
WithinTolerance(r, t) == Abs(r[1] * t[2] - t[1] * r[2]) <= (t[2] * r[2] - 1) \div 200

roi_or_sentinel_below_zero(profit, equity_required) ==
  IF equity_required >= 0 THEN <<profit, equity_required>> ELSE <<"inf">>

(* calculate_profit: profit / equity_required if equity_required > 0 else  *)
(* float('inf')                                                            *)
roi_or_sentinel(profit, equity_required) ==
  IF equity_required > 0 THEN <<profit, equity_required>> ELSE <<"inf">>

profit_target_met_strictly(profit, total_costs) == profit * 4 > total_costs

(* calculate_profit: profit_on_cost >= 0.25 *)
profit_target_met(profit, total_costs) == profit * 4 >= total_costs

(* BTRInvestmentCalculator.calculate_profit *)
calculate_profit(purchase_costs, refurb_costs, gdv, finance_costs, selling_costs) ==
  LET total_costs == purchase_costs.total_purchase_costs + refurb_costs.total_refurb_cost
                       + finance_costs.total_finance_cost + selling_costs.total_selling_costs
      profit == gdv - total_costs
      equity_required == finance_costs.equity_required
  IN  IF total_costs = 0 \/ gdv = 0
      THEN [raised |-> "ZeroDivisionError"]
      ELSE [raised |-> NoValue,
            total_costs |-> total_costs,
            profit |-> profit,
            profit_on_cost |-> <<profit, total_costs>>,
            profit_on_gdv |-> <<profit, gdv>>,
            roi |-> roi_or_sentinel(profit, equity_required),
            target_profit_achieved |-> profit_target_met(profit, total_costs)]

(* the body of the search loop up to profit_result: the whole pipeline at  *)
(* one trial price                                                          *)
evaluate_price(property_info, price, scenario_key, comparable_data, custom_finance_settings) ==
  LET property_info_copy == [k \in DOMAIN property_info \cup {"purchase_price"} |->
                               IF k = "purchase_price" THEN price ELSE property_info[k]]
      purchase_costs == calculate_purchase_costs(price)
      refurb_costs == calculate_refurb_costs(property_info_copy, scenario_key, NoDict)
      gdv == calculate_gdv(property_info_copy, refurb_costs, comparable_data)
      finance_costs == calculate_financing_costs(purchase_costs, refurb_costs,
                                                 custom_finance_settings)
      selling_costs == calculate_selling_costs(gdv.gdv)
      profit == calculate_profit(purchase_costs, refurb_costs, gdv.gdv,
                                 finance_costs, selling_costs)
  IN  IF purchase_costs.raised # NoValue THEN [raised |-> purchase_costs.raised]
      ELSE IF refurb_costs.raised # NoValue THEN [raised |-> refurb_costs.raised]
      ELSE IF gdv.raised # NoValue THEN [raised |-> gdv.raised]
      ELSE IF finance_costs.raised # NoValue THEN [raised |-> finance_costs.raised]
      ELSE IF selling_costs.raised # NoValue THEN [raised |-> selling_costs.raised]
      ELSE IF profit.raised # NoValue THEN [raised |-> profit.raised]
      ELSE [raised |-> NoValue, gdv_result |-> gdv, profit_result |-> profit]

iteration_cap == 10

(* the initial guess of calculate_max_purchase_price *)
initial_price(property_info) ==
  IF "purchase_price" \in DOMAIN property_info
  THEN property_info.purchase_price
  ELSE Get(property_info, "square_feet", 1000) * 400

(* the new trial price and bracket after a trial that missed the tolerance *)
adjust_price(current_profit, target_profit, lo, cur, hi) ==
  IF RatioAbove(current_profit, target_profit)
  THEN [min_price |-> cur, max_price |-> hi, current_price |-> (cur + hi) \div 2]
  ELSE [min_price |-> lo, max_price |-> cur, current_price |-> (cur + lo) \div 2]

----------------------------------------------------------------------------
(* Scores.  A component score is kept in hundredths of a point (12.5       *)
(* points is 1250); an overall score is a whole number of points.          *)

(* int(x) of Python: x = n / d with d > 0, cut towards zero *)
TruncDiv(n, d) == IF n >= 0 THEN n \div d ELSE -((-n) \div d)

(* round(x) of Python 3: x = n / d with d > 0, to the nearest integer,     *)
(* a tie to the even one                                                   *)
RoundHalfEven(n, d) ==
  LET q == n \div d
      r == n % d
  IN  IF 2 * r < d THEN q
      ELSE IF 2 * r > d THEN q + 1
      ELSE IF q % 2 = 0 THEN q ELSE q + 1

RECURSIVE SumOver(_, _)
SumOver(f, keys) ==
  IF keys = {} THEN 0
  ELSE LET k == CHOOSE x \in keys : TRUE
       IN  f[k] + SumOver(f, keys \ {k})

(* src/utils/data_processor.py: the category of calculate_btr_score *)
score_category(normalized_score) ==
  IF normalized_score >= 80 THEN "excellent"
  ELSE IF normalized_score >= 70 THEN "good"
  ELSE IF normalized_score >= 60 THEN "above_average"
  ELSE IF normalized_score >= 50 THEN "average"
  ELSE IF normalized_score >= 40 THEN "below_average"
  ELSE IF normalized_score >= 30 THEN "poor"
  ELSE "very_poor"

property_type_scores == [D |-> 2000, S |-> 1800, T |-> 1500, F |-> 1000, O |-> 500]

(* 1. rental yield: (gross_yield - 0.03) * 1250 between 0 and 25, 10 when  *)
(* the value or the rent is not positive; the value is a multiple of 10    *)
yield_score(estimated_value, annual_rent) ==
  IF estimated_value > 0 /\ annual_rent > 0
  THEN Min(2500, Max(0, (annual_rent * 12500) \div (estimated_value \div 10) - 3750))
  ELSE 1000

(* 3. area quality: area_score * 0.2, at most 20 *)
area_quality_score(area_score) == Min(2000, area_score * 20)

(* 4. growth potential from the first and last price of the history; the   *)
(* oldest price is a positive multiple of 100                              *)
growth_potential_score(price_history) ==
  IF Len(price_history) > 1
  THEN LET oldest == price_history[1]
           newest == price_history[Len(price_history)]
           growth_points == Min(2000, Max(0, ((newest - oldest) * 200) \div (oldest \div 100)))
       IN  Min(2000, (1000 + growth_points) \div 2)
  ELSE 1000

(* 5. renovation potential from the EPC improvement, plus 2.5 for houses *)
renovation_score(property_data) ==
  LET from_epc == IF "epc_efficiency" \in DOMAIN property_data
                     /\ "potential_epc_efficiency" \in DOMAIN property_data
                  THEN Min(1500, (property_data.potential_epc_efficiency
                                    - property_data.epc_efficiency) * 50)
                  ELSE 750
      adjusted == IF property_data.property_type \in {"D", "S", "T"}
                  THEN Min(1500, from_epc + 250) ELSE from_epc
  IN  Min(1500, adjusted)

(* src/utils/data_processor.py: calculate_btr_score.  An EPC figure that   *)
(* is None is a key left out of property_data; the property type None is   *)
(* the string "None".                                                      *)
calculate_btr_score(property_data, rental_data, area_data) ==
  LET scores ==
        [yield |-> yield_score(property_data.estimated_value, rental_data.annual_rent),
         property_type |-> Get(property_type_scores, property_data.property_type, 1000),
         area |-> area_quality_score(area_data.area_score),
         growth |-> growth_potential_score(property_data.price_history),
         renovation |-> renovation_score(property_data)]
      total_score == SumOver(scores, DOMAIN scores)
      max_possible == 25 + 20 + 20 + 20 + 15
      normalized_score == RoundHalfEven(total_score * 100, max_possible * 100)
  IN  [overall_score |-> normalized_score,
       category |-> score_category(normalized_score),
       component_scores |-> scores]

(* scripts/btr_report_generator.py: get_score_rating *)
get_score_rating(score) ==
  IF score >= 80 THEN "Excellent"
  ELSE IF score >= 70 THEN "Good"
  ELSE IF score >= 60 THEN "Above Average"
  ELSE IF score >= 50 THEN "Average"
  ELSE "Below Average"

(* scripts/fixed_btr_report_generator.py: calculate_btr_score; yields and  *)
(* returns in per cent, scores in points                                   *)
fixed_calculate_btr_score(property_details, rental_data, investment_analysis) ==
  LET gross_yield == investment_analysis.gross_yield
      cash_on_cash == investment_analysis.cash_on_cash
      score_components ==
        [yield |-> IF gross_yield >= 8 THEN 30 ELSE IF gross_yield >= 6 THEN 25
                   ELSE IF gross_yield >= 4 THEN 15 ELSE 5,
         cash_flow |-> IF cash_on_cash >= 10 THEN 25 ELSE IF cash_on_cash >= 5 THEN 20
                       ELSE IF cash_on_cash >= 0 THEN 10 ELSE 0,
         location |-> Get([Excellent |-> 20, Good |-> 15, Average |-> 10, Poor |-> 5],
                          property_details.location_quality, 10),
         demand |-> Get([Strong |-> 15, Moderate |-> 10, Weak |-> 5],
                        rental_data.demand_level, 10),
         property_type |-> IF property_details.property_type = "House" THEN 10
                           ELSE IF property_details.property_type = "Flat" THEN 8 ELSE 6]
      total_score == SumOver(score_components, DOMAIN score_components)
      rating == IF total_score >= 80 THEN "Excellent"
                ELSE IF total_score >= 65 THEN "Good"
                ELSE IF total_score >= 50 THEN "Average"
                ELSE IF total_score >= 35 THEN "Below Average"
                ELSE "Poor"
  IN  [total_score |-> total_score, rating |-> rating, components |-> score_components]

(* scripts/btr_report_generator.py: calculate_overall_btr_score; weights   *)
(* in hundredths; a component whose score is None is a key left out        *)
weights == [amenities |-> 20, rental |-> 25, property_value |-> 20, growth |-> 20,
            efficiency |-> 15]

(* total_score / total_weight is computed in doubles and cut by int(): a   *)
(* quotient that is a whole number q can come out just below q and is then *)
(* cut to q - 1.  43 * 0.2 / 0.2 is 42.99999999999999, and 0.2 + 0.2 + 0.2 *)
(* is 0.6000000000000001, so that 48.0 / 0.6000000000000001 is below 80.   *)
truncates_below ==
  {[amenities |-> 43], [amenities |-> 80, property_value |-> 80, growth |-> 80]}

(* the inputs on which the doubles give the quotient of the exact numbers: *)
(* rental alone (0.25 is a binary fraction), a quotient that is not whole  *)
(* (it is at least a hundredth away from a whole number), or one that the  *)
(* clamp replaces                                                          *)
DoubleExact(score_components) ==
  LET counted == DOMAIN score_components \cap DOMAIN weights
      total_score == SumOver([k \in counted |-> score_components[k] * weights[k]], counted)
      total_weight == SumOver(weights, counted)
  IN  IF counted \subseteq {"rental"} THEN TRUE
      ELSE \/ total_score % total_weight # 0
           \/ total_score <= 0
           \/ total_score > 100 * total_weight

calculate_overall_btr_score(score_components) ==
  LET counted == DOMAIN score_components \cap DOMAIN weights
      total_score == SumOver([k \in counted |-> score_components[k] * weights[k]], counted)
      total_weight == SumOver(weights, counted)
      final_score == IF score_components \in truncates_below
                     THEN TruncDiv(total_score, total_weight) - 1
                     ELSE TruncDiv(total_score, total_weight)
  IN  IF total_weight = 0 THEN 50
      ELSE Min(Max(final_score, 0), 100)

----------------------------------------------------------------------------
(* src/components/location_score_algorithm.py.  A dataset is a dict of     *)
(* what the scorer reads from the DataFrame: whether the column it filters *)
(* on is there (a missing column raises KeyError inside the try), the      *)
(* number of rows of the location, and the means of the columns present.   *)

(* calculate_amenity_score; means of the scores on a 0-100 scale *)
calculate_amenity_score(amenities_data) ==
  IF ~amenities_data.has_location THEN 1000
  ELSE IF amenities_data.rows = 0 THEN 1000
  ELSE LET m == amenities_data.means
       IN  IF "amenity_score" \in DOMAIN m THEN Min(m.amenity_score * 20, 2000)
           ELSE (IF "food_score" \in DOMAIN m THEN Min(m.food_score * 10, 500) ELSE 0)
              + (IF "transport_score" \in DOMAIN m THEN Min(m.transport_score * 10, 600) ELSE 0)
              + (IF "shopping_score" \in DOMAIN m THEN Min(m.shopping_score * 10, 400) ELSE 0)
              + (IF "healthcare_score" \in DOMAIN m THEN Min(m.healthcare_score * 10, 500) ELSE 0)

(* calculate_rental_score; rental_data has the national means and, when a  *)
(* region matched, the means of the region; yoy growth in tenths of a per  *)
(* cent; the national mean rent is positive                                *)
calculate_rental_score(rental_data) ==
  LET matched == rental_data.has_region /\ rental_data.region_rows > 0
      national == rental_data.national
      rental_info == IF matched THEN rental_data.region ELSE national
      value_score ==
        IF "value" \in DOMAIN national
        THEN IF 5 * rental_info.value > 4 * national.value
             THEN Min((5000 * rental_info.value - 4000 * national.value) \div national.value, 500)
             ELSE 0
        ELSE 0
      growth_score ==
        IF "yoy_growth" \in DOMAIN national
        THEN LET avg_growth == Max(10, national.yoy_growth)
                 location_growth == Max(0, rental_info.yoy_growth)
             IN  Min((1000 * location_growth) \div avg_growth, 750)
        ELSE 0
  IN  1250 + value_score + growth_score

(* calculate_property_value_score; prices in thousands of pounds, the      *)
(* share of flats in per cent                                              *)
calculate_property_value_score(land_registry_data) ==
  IF ~land_registry_data.has_postcode THEN 1000
  ELSE IF land_registry_data.rows = 0 THEN 1000
  ELSE
    LET avg_price == land_registry_data.avg_price
        national_avg == land_registry_data.national_avg
        price_part ==
          IF 2 * avg_price < national_avg
          THEN -Min((1000 * national_avg - 2000 * avg_price) \div national_avg, 500)
          ELSE IF avg_price > 2 * national_avg
          THEN -Min((500 * avg_price - 1000 * national_avg) \div national_avg, 500)
          ELSE IF avg_price > national_avg /\ 2 * avg_price < 3 * national_avg THEN 500
          ELSE 250
        types_part ==
          IF "types" \in DOMAIN land_registry_data
          THEN LET t == land_registry_data.types
               IN  Min(t.unique_types * 125, 500)
                     + (IF t.has_flats /\ t.has_houses
                        THEN Min((100 - t.flat_share) * 5, 500) ELSE 0)
          ELSE 0
    IN  Min(Max(1000 + price_part + types_part, 0), 2000)

(* calculate_growth_potential; the compound annual growth of the monthly   *)
(* mean prices is an input, in per cent, there when the sales span more    *)
(* than one month and the earliest mean is positive                        *)
calculate_growth_potential(planning_data, land_registry_data) ==
  IF planning_data # NoDict /\ ~planning_data.has_address THEN 1000
  ELSE IF land_registry_data # NoDict /\ land_registry_data.has_date_of_transfer
          /\ ~land_registry_data.has_postcode THEN 1000
  ELSE
    LET planning_part ==
          IF planning_data # NoDict /\ planning_data.rows > 0
          THEN (IF "residential_rows" \in DOMAIN planning_data
                THEN Min((planning_data.residential_rows * 1000) \div planning_data.rows, 500)
                ELSE 0)
             + (IF "unit_count" \in DOMAIN planning_data
                THEN Min(planning_data.unit_count, 500) ELSE 0)
          ELSE 0
        trend_part ==
          IF land_registry_data # NoDict /\ land_registry_data.has_date_of_transfer
             /\ land_registry_data.rows > 10 /\ "annual_growth" \in DOMAIN land_registry_data
          THEN Min(land_registry_data.annual_growth * 100, 1000)
          ELSE 0
    IN  Min(Max(1000 + planning_part + trend_part, 0), 2000)

(* calculate_efficiency_score; the mean improvement is a multiple of 3 *)
calculate_efficiency_score(epc_data) ==
  IF ~epc_data.has_postcode THEN 750
  ELSE IF epc_data.rows = 0 THEN 750
  ELSE
    LET m == epc_data.means
        efficiency_component ==
          IF "current_energy_efficiency" \in DOMAIN m
          THEN Min(m.current_energy_efficiency * 10, 750) ELSE 750
        improvement_component ==
          IF "efficiency_improvement" \in DOMAIN m
          THEN Min((m.efficiency_improvement * 100) \div 3, 750) ELSE 0
    IN  Min(Max(efficiency_component + improvement_component, 0), 1500)

location_weights == [base |-> 100, amenities |-> 20, rental |-> 25, property_value |-> 20,
                     growth |-> 20, efficiency |-> 15]

base_score == 50

(* the scores dict of calculate_location_score: the base score and a       *)
(* component for every dataset that is not None                            *)
component_scores(amenities_data, rental_data, epc_data, land_registry_data, planning_data) ==
  LET present ==
        {"base"}
          \cup (IF amenities_data # NoDict THEN {"amenities"} ELSE {})
          \cup (IF rental_data # NoDict THEN {"rental"} ELSE {})
          \cup (IF land_registry_data # NoDict THEN {"property_value"} ELSE {})
          \cup (IF planning_data # NoDict /\ land_registry_data # NoDict
                THEN {"growth"} ELSE {})
          \cup (IF epc_data # NoDict THEN {"efficiency"} ELSE {})
  IN  [k \in present |->
         CASE k = "base" -> base_score * 100
           [] k = "amenities" -> calculate_amenity_score(amenities_data)
           [] k = "rental" -> calculate_rental_score(rental_data)
           [] k = "property_value" -> calculate_property_value_score(land_registry_data)
           [] k = "growth" -> calculate_growth_potential(planning_data, land_registry_data)
           [] k = "efficiency" -> calculate_efficiency_score(epc_data)]

(* calculate_location_score *)
calculate_location_score(amenities_data, rental_data, epc_data, land_registry_data, planning_data) ==
  LET scores == component_scores(amenities_data, rental_data, epc_data,
                                 land_registry_data, planning_data)
      total_weight == SumOver(location_weights, DOMAIN scores)
      weighted == SumOver([k \in DOMAIN scores |-> scores[k] * location_weights[k]],
                          DOMAIN scores)
      clamped == Min(Max(weighted, 0), 100 * 100 * total_weight)
      final_score == RoundHalfEven(clamped, 100 * total_weight)
  IN  [overall_score |-> final_score, component_scores |-> scores]

----------------------------------------------------------------------------
(* scripts/btr_report_generator.py: generate_property_report, the steps up *)
(* to the GDV                                                              *)

scenario_map == ("Buy & Hold" :> "cosmetic_refurb") @@ ("Light Refurbishment" :> "light_refurb")
                 @@ ("Full Renovation" :> "full_refurb") @@ ("HMO Conversion" :> "full_refurb")

(* estimate_square_feet; prop_type in lower case *)
estimate_square_feet(prop_type, bedrooms) ==
  Get([flat |-> 600, house |-> 900, other |-> 750], prop_type, 750) + (bedrooms - 2) * 150

(* the property_info, the scenario of the strategy and the three           *)
(* calculations of generate_property_report                                *)
generate_property_report(price, prop_type, bedrooms, strategy) ==
  LET property_info == [purchase_price |-> price,
                        square_feet |-> estimate_square_feet(prop_type, bedrooms),
                        property_type |-> prop_type,
                        rooms |-> bedrooms,
                        is_leasehold |-> (prop_type = "flat")]
      scenario == Get(scenario_map, strategy, "light_refurb")
      purchase_costs == calculate_purchase_costs(price)
      refurb_costs == calculate_refurb_costs(property_info, scenario, NoDict)
  IN  IF purchase_costs.raised # NoValue THEN [raised |-> purchase_costs.raised]
      ELSE IF refurb_costs.raised # NoValue THEN [raised |-> refurb_costs.raised]
      ELSE [raised |-> NoValue,
            property_info |-> property_info,
            scenario |-> scenario,
            purchase_costs |-> purchase_costs,
            refurb_costs |-> refurb_costs,
            gdv_result |-> calculate_gdv(property_info, refurb_costs, NoDict)]

default_is_leasehold_always(property_type) == TRUE

(* calculate_rental_income: the default of is_leasehold *)
default_is_leasehold(property_type) == property_type = "flat"

(* calculate_rental_income: rental_market_data.get('gross_yield') if       *)
(* rental_market_data else rental_settings['gross_yield']; a market data   *)
(* dict without the key gives None, here -1                                *)
market_gross_yield(rental_market_data) ==
  IF DOMAIN rental_market_data # {}
  THEN Get(rental_market_data, "gross_yield", -1)
  ELSE rental_settings.gross_yield

(* BTRInvestmentCalculator.calculate_rental_income; the gdv and the refurb  *)
(* cost of the GDV result in pence, the result in pence, the yields and    *)
(* the expense ratio as pairs.  gdv * None is a TypeError; the yields      *)
(* divide by the total investment and the expense ratio by the annual rent *)
calculate_rental_income(property_info, the_gdv_result, rental_market_data) ==
  LET sqft == Get(property_info, "square_feet", 1000)
      property_type == Get(property_info, "property_type", "house")
      is_leasehold == Get(property_info, "is_leasehold", default_is_leasehold(property_type))
      gdv == the_gdv_result.gdv
      gross_yield == market_gross_yield(rental_market_data)
      annual_rent == PctOf(gdv, gross_yield)
      monthly_rent == annual_rent \div 12
      management_fee == PctOf(annual_rent, rental_settings.management_fee_pct)
      maintenance == PctOf(annual_rent, rental_settings.maintenance_pct)
      void_cost == (annual_rent * rental_settings.void_months_per_year[1])
                     \div (rental_settings.void_months_per_year[2] * 12)
      insurance == PerMilleOf(gdv, rental_settings.insurance_pm)
      service_charge == IF is_leasehold THEN sqft * rental_settings.service_charge_psf * 100 ELSE 0
      ground_rent == IF is_leasehold THEN rental_settings.ground_rent * 100 ELSE 0
      total_expenses == management_fee + maintenance + void_cost + insurance
                          + service_charge + ground_rent
      net_annual_rent == annual_rent - total_expenses
      total_investment == Get(property_info, "purchase_price", 0) * 100 + the_gdv_result.refurb_cost
  IN  IF gross_yield = -1 THEN [raised |-> "TypeError"]
      ELSE IF total_investment = 0 \/ annual_rent = 0 THEN [raised |-> "ZeroDivisionError"]
      ELSE [raised |-> NoValue,
            monthly_rent |-> monthly_rent,
            annual_rent |-> annual_rent,
            management_fee |-> management_fee,
            maintenance |-> maintenance,
            void_cost |-> void_cost,
            insurance |-> insurance,
            service_charge |-> service_charge,
            ground_rent |-> ground_rent,
            total_expenses |-> total_expenses,
            net_monthly_rent |-> <<net_annual_rent, 12>>,
            net_annual_rent |-> net_annual_rent,
            gross_yield |-> <<annual_rent, total_investment>>,
            net_yield |-> <<net_annual_rent, total_investment>>,
            expense_ratio |-> <<total_expenses, annual_rent>>]

----------------------------------------------------------------------------
(* src/utils/data_processor.py: predict_rental_growth.  Rents in pounds,  *)
(* the growth rate in per cent; a forecast amount is the exact fraction    *)
(* <<numerator, denominator>>                                              *)

RECURSIVE GCD(_, _)
GCD(a, b) == IF b = 0 THEN a ELSE GCD(b, a % b)

RECURSIVE Pow(_, _)
Pow(b, e) == IF e = 0 THEN 1 ELSE b * Pow(b, e - 1)

(* 1 + growth_rate, growth_rate being rental_data.get('growth_rate', 4.0)  *)
(* / 100, in lowest terms                                                  *)
one_plus_growth_rate(rental_data) ==
  LET g == Get(rental_data, "growth_rate", 4)
      d == GCD(100 + g, 100)
  IN  <<(100 + g) \div d, 100 \div d>>

forecast_entry_not_compounded(rental_data, year) ==
  LET g == Get(rental_data, "growth_rate", 4)
  IN  [year |-> year,
       monthly_rent |-> <<rental_data.monthly_rent * (100 + g * year), 100>>,
       annual_rent |-> <<rental_data.annual_rent * (100 + g * year), 100>>,
       growth_rate |-> g]

(* the dict appended for one year *)
forecast_entry(rental_data, year) ==
  LET r == one_plus_growth_rate(rental_data)
  IN  [year |-> year,
       monthly_rent |-> <<rental_data.monthly_rent * Pow(r[1], year), Pow(r[2], year)>>,
       annual_rent |-> <<rental_data.annual_rent * Pow(r[1], year), Pow(r[2], year)>>,
       growth_rate |-> Get(rental_data, "growth_rate", 4)]

(* predict_rental_growth: one entry for each year of range(1, years + 1);  *)
(* the rents are read before the loop, a missing one is a KeyError         *)
predict_rental_growth(rental_data, years) ==
  IF {"monthly_rent", "annual_rent"} \subseteq DOMAIN rental_data
  THEN [raised |-> NoValue, forecast |-> [year \in 1..years |-> forecast_entry(rental_data, year)]]
  ELSE [raised |-> "KeyError"]

----------------------------------------------------------------------------
(* scripts/btr_report_generator.py: the scorers of the location report, on *)
(* a 0-100 scale.  A DataFrame is None (NoDict) or a dict of what the      *)
(* scorer reads from it: the number of rows, whether the column it filters *)
(* on is there, the number of rows that match the location or its          *)
(* postcode, and the figures of the matching rows.                         *)

category_scores ==
  [transport |-> 15, food |-> 10, shopping |-> 10, healthcare |-> 10,
   education |-> 8, leisure |-> 7]

(* analyze_amenities: the score returned when amenities_df is None or has  *)
(* no rows                                                                 *)
no_amenities_score(amenities_df) == 50

(* analyze_amenities; category_counts has the number of matching rows of   *)
(* each category that occurs                                               *)
analyze_amenities(amenities_df) ==
  IF amenities_df = NoDict THEN no_amenities_score(amenities_df)
  ELSE IF amenities_df.rows = 0 THEN no_amenities_score(amenities_df)
  ELSE IF ~amenities_df.has_location \/ amenities_df.matches = 0 THEN 65
  ELSE IF ~amenities_df.has_category THEN 50
  ELSE LET counts == amenities_df.category_counts
           scored == DOMAIN counts \cap DOMAIN category_scores
           points == [c \in scored |-> Min(counts[c] * 2, category_scores[c])]
       IN  Min(50 + SumOver(points, scored), 100)

----------------------------------------------------------------------------
(* BTRInvestmentCalculator.run_scenario_analysis                           *)

(* list(self.scenarios.keys()): the keys in the order of the table *)
scenario_order ==
  <<"cosmetic_refurb", "light_refurb", "medium_refurb", "full_refurb", "extension">>

(* r <= t for two ratios whose numerators may be negative *)
RatioLeq(r, t) ==
  IF r[1] < 0
  THEN (IF t[1] < 0 THEN RatLeq(-t[1], t[2], -r[1], r[2]) ELSE TRUE)
  ELSE (IF t[1] < 0 THEN FALSE ELSE RatLeq(r[1], r[2], t[1], t[2]))

(* the pipeline of the loop body for one scenario and the entry stored *)
scenario_result(property_info, scenario_key) ==
  LET purchase_costs == calculate_purchase_costs(property_info.purchase_price)
      refurb_costs == calculate_refurb_costs(property_info, scenario_key, NoDict)
      gdv == calculate_gdv(property_info, refurb_costs, NoDict)
      finance_costs == calculate_financing_costs(purchase_costs, refurb_costs, NoDict)
      selling_costs == calculate_selling_costs(gdv.gdv)
      profit == calculate_profit(purchase_costs, refurb_costs, gdv.gdv,
                                 finance_costs, selling_costs)
      rental == calculate_rental_income(property_info, gdv, NoDict)
  IN  IF "purchase_price" \notin DOMAIN property_info THEN [raised |-> "KeyError"]
      ELSE IF purchase_costs.raised # NoValue THEN [raised |-> purchase_costs.raised]
      ELSE IF refurb_costs.raised # NoValue THEN [raised |-> refurb_costs.raised]
      ELSE IF gdv.raised # NoValue THEN [raised |-> gdv.raised]
      ELSE IF finance_costs.raised # NoValue THEN [raised |-> finance_costs.raised]
      ELSE IF selling_costs.raised # NoValue THEN [raised |-> selling_costs.raised]
      ELSE IF profit.raised # NoValue THEN [raised |-> profit.raised]
      ELSE IF rental.raised # NoValue THEN [raised |-> rental.raised]
      ELSE [raised |-> NoValue,
            purchase_price |-> property_info.purchase_price,
            refurb_cost |-> refurb_costs.total_refurb_cost,
            total_costs |-> profit.total_costs,
            gdv |-> gdv.gdv,
            profit |-> profit.profit,
            profit_on_cost |-> profit.profit_on_cost,
            roi |-> profit.roi,
            monthly_rent |-> rental.monthly_rent,
            net_yield |-> rental.net_yield,
            target_met |-> profit.target_profit_achieved]

(* the loop over the scenarios: the first failing scenario raises and    *)
(* leaves the loop, the others are stored in the order of the list         *)
RECURSIVE scenario_loop(_, _, _, _)
store_scenario(property_info, scenario_keys, i, results, result) ==
  IF result.raised # NoValue THEN [raised |-> result.raised]
  ELSE scenario_loop(property_info, scenario_keys, i + 1, Append(results, result))

scenario_loop(property_info, scenario_keys, i, results) ==
  IF i > Len(scenario_keys) THEN [raised |-> NoValue, results |-> results]
  ELSE store_scenario(property_info, scenario_keys, i, results,
                      scenario_result(property_info, scenario_keys[i]))

(* max(results.items(), key=profit_on_cost): the first of the best *)
RECURSIVE best_scenario(_, _, _)
best_scenario(results, i, best) ==
  IF i > Len(results) THEN best
  ELSE IF RatioLeq(results[i].profit_on_cost, results[best].profit_on_cost)
       THEN best_scenario(results, i + 1, best)
       ELSE best_scenario(results, i + 1, i)

(* the record returned from the stored results; max() of no results is a   *)
(* ValueError                                                              *)
scenario_analysis(property_info, scenario_keys, loop, best) ==
  IF loop.raised # NoValue THEN [raised |-> loop.raised]
  ELSE IF Len(scenario_keys) = 0 THEN [raised |-> "ValueError"]
  ELSE [raised |-> NoValue,
        scenarios |-> [k \in {scenario_keys[i] : i \in 1..Len(scenario_keys)} |->
                         loop.results[CHOOSE i \in 1..Len(scenario_keys) : scenario_keys[i] = k]],
        best_scenario |-> scenario_keys[best],
        best_profit_on_cost |-> loop.results[best].profit_on_cost,
        property_info |-> property_info]

best_of_loop(loop) ==
  IF loop.raised # NoValue \/ Len(loop.results) = 0 THEN 0
  ELSE best_scenario(loop.results, 2, 1)

analysis_of_loop(property_info, scenario_keys, loop) ==
  scenario_analysis(property_info, scenario_keys, loop, best_of_loop(loop))

(* run_scenario_analysis; scenario_keys is the list given or the keys of   *)
(* the table                                                               *)
run_scenario_analysis(property_info, scenario_keys) ==
  analysis_of_loop(property_info, scenario_keys,
                   scenario_loop(property_info, scenario_keys, 1, <<>>))


(* scripts/btr_report_generator.py: analyze_rental_market.  rentals_df is  *)
(* NoDict for None; rows is len(rentals_df), region_rows the rows of the   *)
(* region matched; national and region have the column means, a column     *)
(* that is missing (or a growth mean that is NaN) is a key left out;       *)
(* rents in pounds, growth in whole per cent, the score in points.         *)

(* the bands of ratio = avg_rent / national_avg *)
rent_ratio_bonus(avg_rent, national_avg) ==
  IF 5 * avg_rent >= 4 * national_avg /\ 2 * avg_rent <= 3 * national_avg THEN 20
  ELSE IF 5 * avg_rent >= 3 * national_avg /\ 5 * avg_rent < 4 * national_avg THEN 10
  ELSE IF 2 * avg_rent > 3 * national_avg THEN 5
  ELSE 0

growth_bonus_cap == 30

(* min(avg_growth * 2, 30) for a positive growth *)
growth_bonus(avg_growth) ==
  IF avg_growth > 0 THEN Min(avg_growth * 2, growth_bonus_cap) ELSE 0

analyze_rental_market(rentals_df) ==
  IF rentals_df = NoDict THEN 50
  ELSE IF rentals_df.rows = 0 THEN 50
  ELSE IF ~rentals_df.has_region \/ rentals_df.region_rows = 0 THEN 60
  ELSE LET relevant_rentals == rentals_df.region
           from_ratio == IF "value" \in DOMAIN relevant_rentals
                         THEN rent_ratio_bonus(relevant_rentals.value,
                                               rentals_df.national.value)
                         ELSE 0
           from_growth == IF "yoy_growth" \in DOMAIN relevant_rentals
                          THEN growth_bonus(relevant_rentals.yoy_growth)
                          ELSE 0
       IN  Min(50 + from_ratio + from_growth, 100)


(* src/utils/data_processor.py: find_property_data.  The datasets are what *)
(* load_land_registry_data and load_epc_data return: NoDict for None, else *)
(* the rows of the file.  Prices in pounds, bathrooms in tenths.           *)

property_type_map ==
  [D |-> "Detached", S |-> "Semi-detached", T |-> "Terraced", F |-> "Flat/Maisonette",
   O |-> "Other"]

(* 'flat' in address.lower() or 'apartment' in address.lower() *)
mentions_flat(address) ==
  address \in {"Flat 3, 8 Mill Lane, Leeds LS1 4AP", "Flat 2, 1 Brick Lane, London E1 6AN"}

(* re.search(postcode_pattern, address.upper()): the postcode found in the *)
(* address, NoValue when there is none                                     *)
postcode_in_address(address) ==
  CASE address = "Flat 3, 8 Mill Lane, Leeds LS1 4AP" -> "LS1 4AP"
    [] address = "Flat 2, 1 Brick Lane, London E1 6AN" -> "E1 6AN"
    [] OTHER -> NoValue

(* postcode_to_area: the part of the postcode before the space *)
postcode_to_area(postcode) ==
  CASE postcode \in {"LS1 4AP", "LS1 2AB", "LS1 3CD"} -> "LS1"
    [] postcode = "LS11 8PG" -> "LS11"
    [] postcode = "E1 6AN" -> "E1"
    [] postcode = "M1 1AE" -> "M1"

(* str.startswith(postcode_area) on a postcode of the dataset *)
starts_with_area(row_postcode, postcode_area) ==
  \/ postcode_to_area(row_postcode) = postcode_area
  \/ postcode_area = "LS1" /\ postcode_to_area(row_postcode) = "LS11"

(* postcode_area.startswith(("E", "EC", "N", "NW", "SE", "SW", "W", "WC")) *)
is_london(postcode) ==
  IF postcode = NoValue THEN FALSE ELSE postcode_to_area(postcode) \in {"E1"}

(* the postcode the lookups use: the argument, or the one in the address *)
lookup_postcode(address, postcode) ==
  IF postcode = NoValue /\ address # "" THEN postcode_in_address(address) ELSE postcode

(* land_registry_data[land_registry_data['postcode'] == postcode] *)
properties_at(land_registry_data, postcode) ==
  IF land_registry_data = NoDict \/ postcode = NoValue THEN <<>>
  ELSE SelectSeq(land_registry_data.rows, LAMBDA row : row.postcode = postcode)

(* the rows of the postcode area, looked up when no estimate was found *)
area_properties_of(land_registry_data, postcode) ==
  IF land_registry_data = NoDict \/ postcode = NoValue THEN <<>>
  ELSE SelectSeq(land_registry_data.rows,
                 LAMBDA row : starts_with_area(row.postcode, postcode_to_area(postcode)))

(* properties.sort_values('date_of_transfer', ascending=False).iloc[0] *)
latest_property(properties) ==
  LET i == CHOOSE i \in 1..Len(properties) :
             \A j \in 1..Len(properties) :
               properties[j].date_of_transfer <= properties[i].date_of_transfer
  IN  properties[i]

(* epc_data[epc_data['postcode'] == postcode]: the means and the first row *)
(* of the rows of the postcode, NoDict when there are none                 *)
property_epc_of(epc_data, postcode) ==
  IF epc_data = NoDict \/ postcode = NoValue THEN NoDict
  ELSE IF epc_data.postcode # postcode \/ epc_data.rows = 0 THEN NoDict
  ELSE epc_data

default_sq_ft(property_type) ==
  CASE property_type = "F" -> 700
    [] property_type = "T" -> 950
    [] property_type = "S" -> 1100
    [] property_type = "D" -> 1400
    [] OTHER -> 950

(* total_floor_area.mean() * 10.764; exact when the mean is a multiple of  *)
(* 250 square metres                                                       *)
sq_ft_of(property_epc, property_type) ==
  IF property_epc # NoDict /\ "total_floor_area" \in DOMAIN property_epc.means
  THEN (property_epc.means.total_floor_area * 10764) \div 1000
  ELSE default_sq_ft(property_type)

average_price_per_sqft(property_type, london) ==
  CASE property_type = "F" -> IF london THEN 750 ELSE 350
    [] property_type = "T" -> IF london THEN 800 ELSE 300
    [] property_type = "S" -> IF london THEN 700 ELSE 280
    [] property_type = "D" -> IF london THEN 650 ELSE 250
    [] OTHER -> IF london THEN 700 ELSE 300

(* the EPC figures of the first row; a figure of a missing column is None  *)
(* and left out                                                            *)
epc_figures(property_epc) ==
  IF property_epc = NoDict THEN NoDict
  ELSE [k \in DOMAIN property_epc.first \cap {"epc_efficiency", "potential_epc_efficiency"}
          |-> property_epc.first[k]]

(* the defaults for what is still missing, and the record returned *)
property_defaults(address, postcode, properties, property_epc, property_type) ==
  LET sq_ft == sq_ft_of(property_epc, property_type)
      price_per_sqft == average_price_per_sqft(property_type, is_london(postcode))
  IN  [raised |-> NoValue,
       estimated_value |-> IF Len(properties) > 0 THEN latest_property(properties).price
                           ELSE price_per_sqft * sq_ft,
       property_type |-> property_type,
       property_type_name |-> Get(property_type_map, property_type, "Unknown"),
       bedrooms |-> IF property_type = "F" THEN 2 ELSE 3,
       bathrooms |-> IF property_type = "F" THEN 10 ELSE 15,
       sq_ft |-> sq_ft,
       price_history |-> [i \in 1..Len(properties) |-> properties[i].price],
       postcode |-> postcode,
       address |-> address,
       price_per_sqft |-> IF Len(properties) > 0
                          THEN <<latest_property(properties).price, sq_ft>>
                          ELSE <<price_per_sqft, 1>>]
      @@ epc_figures(property_epc)

(* the property type of the latest sale, else 'F' for an address that      *)
(* mentions a flat and 'T' otherwise                                       *)
property_type_of(address, properties) ==
  IF Len(properties) > 0 THEN latest_property(properties).property_type
  ELSE IF mentions_flat(address) THEN "F" ELSE "T"

(* the lookup by postcode area: property_type_map is assigned only in the  *)
(* branch of an exact match, and this branch runs only without one         *)
area_lookup(address, postcode, properties, area_properties, property_epc) ==
  IF Len(properties) = 0 /\ Len(area_properties) > 0
  THEN [raised |-> "UnboundLocalError"]
  ELSE property_defaults(address, postcode, properties, property_epc,
                         property_type_of(address, properties))

(* find_property_data; NoDict is the None returned when there is neither   *)
(* an address nor a postcode                                               *)
find_property_data(address, postcode, land_registry_data, epc_data) ==
  IF address = "" /\ postcode = NoValue THEN NoDict
  ELSE area_lookup(address, lookup_postcode(address, postcode),
                   properties_at(land_registry_data, lookup_postcode(address, postcode)),
                   area_properties_of(land_registry_data, lookup_postcode(address, postcode)),
                   property_epc_of(epc_data, lookup_postcode(address, postcode)))


(* src/utils/data_processor.py: find_rental_data.  The yields by property  *)
(* type in per mille; London yields are multiplied by 0.8.                 *)
yields == [F |-> 45, T |-> 42, S |-> 38, D |-> 35, O |-> 40]

(* 25,000 times the annual rent: estimated_value * gross_yield *           *)
(* (bedrooms / 2.5), the yield being yields[...] / 1000 and 0.8 of it in   *)
(* London                                                                  *)
annual_rent_x25000(postcode, property_type, bedrooms, estimated_value) ==
  estimated_value * Get(yields, property_type, 40) * bedrooms
    * 2 * (IF is_london(postcode) THEN 4 ELSE 5)

(* the rental data for an annual rent in whole pounds *)
rental_data_of(annual_rent, estimated_value) ==
  [monthly_rent |-> annual_rent \div 12,
   annual_rent |-> annual_rent,
   gross_yield |-> <<annual_rent, estimated_value>>,
   growth_rate |-> 4,
   rental_demand |-> IF annual_rent * 20 >= estimated_value THEN "High"
                     ELSE IF annual_rent * 100 <= estimated_value * 3 THEN "Low"
                     ELSE "Medium",
   void_periods |-> "2 weeks per year"]

(* find_rental_data; the rents and the yield stay None, keys left out,     *)
(* without an estimated value                                              *)
find_rental_data(postcode, property_type, bedrooms, estimated_value) ==
  IF estimated_value # 0
  THEN rental_data_of(annual_rent_x25000(postcode, property_type, bedrooms,
                                         estimated_value) \div 25000,
                      estimated_value)
  ELSE [growth_rate |-> 4, rental_demand |-> "Medium", void_periods |-> "2 weeks per year"]

(* src/utils/data_processor.py: find_area_data.  amenities_data is NoDict  *)
(* for None, else the number of rows of the file and the first row of its  *)
(* one location.                                                           *)
default_area_metrics ==
  [total_amenities |-> 100, food_score |-> 25, shopping_score |-> 20,
   transport_score |-> 25, healthcare_score |-> 15, amenity_score |-> 50]

(* postcode_area[:2] in location *)
area_in_location(postcode, location) ==
  postcode_to_area(postcode) \in {"LS1", "LS11"} /\ location = "Leeds LS"

area_metrics_of(postcode, amenities_data) ==
  IF amenities_data = NoDict THEN NoDict
  ELSE IF postcode = NoValue \/ amenities_data.rows = 0 THEN default_area_metrics
  ELSE IF area_in_location(postcode, amenities_data.first_row.location)
  THEN amenities_data.first_row
  ELSE default_area_metrics

area_data_of(area_metrics, area_score) ==
  [area_metrics |-> area_metrics,
   area_score |-> area_score,
   transport_links |-> IF area_score >= 75 THEN "Excellent"
                       ELSE IF area_score >= 50 THEN "Good" ELSE "Average",
   school_rating |-> IF area_score >= 75 THEN "Outstanding"
                     ELSE IF area_score >= 50 THEN "Good" ELSE "Requires Improvement",
   crime_rate |-> IF area_score >= 75 THEN "Low"
                  ELSE IF area_score >= 50 THEN "Medium" ELSE "High"]

find_area_data(postcode, amenities_data) ==
  area_data_of(area_metrics_of(postcode, amenities_data),
               Get(area_metrics_of(postcode, amenities_data), "amenity_score", 50))

(* src/utils/data_processor.py: calculate_renovation_scenarios; pounds,    *)
(* exact for a value that is a multiple of 20; roi and value_uplift_pct    *)
(* as pairs of numerator and denominator                                   *)
renovation_scenario(name, cost, value_uplift, estimated_value) ==
  [name |-> name,
   cost |-> cost,
   value_uplift |-> value_uplift,
   value_uplift_pct |-> <<value_uplift * 100, estimated_value>>,
   new_value |-> estimated_value + value_uplift,
   roi |-> <<(value_uplift - cost) * 100, cost>>]

calculate_renovation_scenarios(property_data) ==
  IF property_data.sq_ft = 0 THEN [raised |-> "ZeroDivisionError"]
  ELSE [raised |-> NoValue,
        scenarios |->
          <<renovation_scenario("Cosmetic Refurbishment", property_data.sq_ft * 9,
                                property_data.estimated_value \div 10,
                                property_data.estimated_value),
            renovation_scenario("Light Refurbishment", property_data.sq_ft * 75,
                                (property_data.estimated_value * 15) \div 100,
                                property_data.estimated_value)>>
          \o (IF property_data.property_type \in {"D", "S", "T"}
              THEN <<renovation_scenario("Extension", property_data.sq_ft * 40,
                                         property_data.sq_ft * 80,
                                         property_data.estimated_value)>>
              ELSE <<>>)]

(* src/utils/llm_client.py: curate_property_valuation.  llm is what the    *)
(* environment gives: no API key, a call that fails or returns no JSON     *)
(* (response NoDict), or the JSON of the response                          *)
curate_property_valuation(llm, estimated_value) ==
  IF llm.api_type = NoValue THEN [curated |-> FALSE, curated_value |-> estimated_value]
  ELSE IF llm.response = NoDict THEN [curated |-> FALSE, curated_value |-> estimated_value]
  ELSE [curated |-> TRUE,
        curated_value |-> Get(llm.response, "curated_value", estimated_value)]

(* src/utils/report_builder.py: build_btr_report, steps 2 and 3: the       *)
(* curated value and the price per square foot                             *)
valued_property(property_data, llm_result) ==
  IF llm_result.curated
  THEN [property_data EXCEPT !.estimated_value = llm_result.curated_value,
                             !.price_per_sqft = <<llm_result.curated_value, @[2]>>]
  ELSE property_data

with_price_per_sqft(property_data) ==
  [property_data EXCEPT !.price_per_sqft = <<property_data.estimated_value,
                                             property_data.sq_ft>>]

(* predict_rental_growth(rental_data, years=5) *)
default_years == 5

(* the forecast of the report: predict_rental_growth(rental_data) over the *)
(* default five years; the entries are those of forecast_entry, held here  *)
(* without their rents, and rents that are None make the product a         *)
(* TypeError                                                               *)
report_forecast(rental_data) ==
  IF "monthly_rent" \in DOMAIN rental_data
  THEN [raised |-> NoValue,
        forecast |-> [year \in 1..default_years |->
                        [year |-> year, growth_rate |-> Get(rental_data, "growth_rate", 4)]]]
  ELSE [raised |-> "TypeError"]

(* steps 6 to 10: the report record, or the error record of the except     *)
(* clause                                                                  *)
report_record(address, property_data, rental_data, area_data, renovation_scenarios, rental_forecast) ==
  IF renovation_scenarios.raised # NoValue THEN [error |-> renovation_scenarios.raised, address |-> address]
  ELSE IF rental_forecast.raised # NoValue THEN [error |-> rental_forecast.raised, address |-> address]
  ELSE [error |-> NoValue,
        address |-> address,
        property_data |-> property_data,
        rental_data |-> rental_data,
        area_data |-> area_data,
        btr_score |-> calculate_btr_score(property_data, rental_data, area_data),
        renovation_scenarios |-> renovation_scenarios.scenarios,
        rental_forecast |-> rental_forecast.forecast]

(* steps 4 and 5 *)
report_with_rents(address, property_data, rental_data, amenities_data) ==
  report_record(address, property_data, rental_data,
                find_area_data(property_data.postcode, amenities_data),
                calculate_renovation_scenarios(property_data),
                report_forecast(rental_data))

report_of_property(address, property_data, amenities_data) ==
  report_with_rents(address, property_data,
                    find_rental_data(property_data.postcode, property_data.property_type,
                                     property_data.bedrooms, property_data.estimated_value),
                    amenities_data)

(* step 1 and the except clause around all steps *)
report_or_error(address, property_data, amenities_data, llm) ==
  IF property_data = NoDict THEN [error |-> "Property data not found", address |-> address]
  ELSE IF property_data.raised # NoValue
  THEN [error |-> property_data.raised, address |-> address]
  ELSE report_of_property(
         address,
         with_price_per_sqft(
           valued_property(property_data,
                           curate_property_valuation(llm, property_data.estimated_value))),
         amenities_data)

(* build_btr_report, with the files it loads and the LLM it calls *)
build_btr_report(address, postcode, land_registry_data, epc_data, amenities_data, llm) ==
  report_or_error(address,
                  find_property_data(address, postcode, land_registry_data, epc_data),
                  amenities_data, llm)


(* src/utils/report_builder.py: build_report_markdown, the note on default *)
(* scores.  A component is listed when its score equals the default of its *)
(* scorer: 10 for yield and growth, 7.5 for renovation.  The page of an     *)
(* error record holds the error and no note.                                *)
default_note(components) ==
  (IF components.yield = 1000 THEN <<"rental">> ELSE <<>>)
    \o (IF components.growth = 1000 THEN <<"growth">> ELSE <<>>)
    \o (IF components.renovation = 750 THEN <<"efficiency">> ELSE <<>>)

build_report_markdown(report_data) ==
  IF report_data.error # NoValue
  THEN [error_page |-> TRUE, defaults |-> <<>>]
  ELSE [error_page |-> FALSE,
        defaults |-> default_note(report_data.btr_score.component_scores)]


(* scripts/free_geocoding_service.py.  What a service does with a location  *)
(* and the response of its web API: outcome.raised is the exception that    *)
(* leaves the service, outcome.result the value it returns, the empty      *)
(* record for None.  A location that is not a string is None.              *)
no_result == [raised |-> NoValue, result |-> NoDict]

(* _extract_postcode: the postcode or postcode area in the location *)
_extract_postcode(location) ==
  CASE location = "LS1 4AP" -> "LS1 4AP"
    [] location = "Zzyzx Q9" -> "Q9"
    [] OTHER -> NoValue

(* the keys of mock_locations that match the location *)
mock_locations(location) ==
  CASE location = "LS1 4AP" -> [area |-> "Leeds City Centre", postcode |-> "LS1"]
    [] location = "Leeds" -> [area |-> "Leeds", postcode |-> "LS1"]
    [] OTHER -> NoDict

(* location.upper() is outside the try statement; every error of the       *)
(* request is caught inside the service                                     *)
_postcode_io_geocode(location, response) ==
  IF location = NoValue THEN [raised |-> "AttributeError", result |-> NoDict]
  ELSE IF _extract_postcode(location) = NoValue THEN no_result
  ELSE IF response = "found"
  THEN [raised |-> NoValue,
        result |-> [postcode |-> _extract_postcode(location), source |-> "postcodes.io"]]
  ELSE no_result

(* location.strip() is outside the try statement *)
_nominatim_geocode(location, response) ==
  IF location = NoValue THEN [raised |-> "AttributeError", result |-> NoDict]
  ELSE IF response = "found"
  THEN [raised |-> NoValue, result |-> [postcode |-> "", source |-> "nominatim"]]
  ELSE no_result

_mock_geocode(location) ==
  IF location = NoValue THEN [raised |-> "AttributeError", result |-> NoDict]
  ELSE IF mock_locations(location) # NoDict
  THEN [raised |-> NoValue,
        result |-> [postcode |-> mock_locations(location).postcode,
                    source |-> "mock_database"]]
  ELSE no_result

(* self.services, in the order of the list *)
services == <<"_postcode_io_geocode", "_nominatim_geocode", "_mock_geocode">>

call_service(name, location, response) ==
  CASE name = "_postcode_io_geocode" -> _postcode_io_geocode(location, response)
    [] name = "_nominatim_geocode" -> _nominatim_geocode(location, response)
    [] name = "_mock_geocode" -> _mock_geocode(location)

returns_first_outcome(outcome) == outcome.raised = NoValue

(* the body of the loop of geocode_location: the value of a service is     *)
(* returned when the service did not raise and the value is truthy          *)
returns_result(outcome) == outcome.raised = NoValue /\ outcome.result # NoDict

----------------------------------------------------------------------------
(* The inputs                                                              *)

ScenarioKeys == DOMAIN scenarios \cup {"hmo_conversion"}

RefurbProperties ==
  {NoDict} \cup {[square_feet |-> s, rooms |-> 3] : s \in SquareFeet}

CustomWorks ==
  {NoDict} \cup {[kitchen |-> q] : q \in 1..MaxQuantity}
         \cup {[kitchen |-> 1, bathroom |-> q] : q \in 1..MaxQuantity}
         \cup {[light_refurb_psf |-> q] : q \in 1..MaxQuantity}
         \cup {[swimming_pool |-> 1]}

(* the search halves its price ten times: an initial price that is a       *)
(* multiple of 1,024 keeps every trial price a whole number of pounds      *)
SearchProperties ==
  {[square_feet |-> 500 * k, purchase_price |-> 1024000] : k \in 1..MaxSqftSteps}
    \cup {[square_feet |-> 1000, purchase_price |-> 51200], [square_feet |-> 2560]}

(* the inputs of the pipeline for which every amount is a whole number of  *)
(* pence: with the default finance settings all of them, with a 70% loan   *)
(* those whose project cost is a whole number of tens of pounds            *)
WholePence(property_info, scenario_key, custom_finance) ==
  \/ DOMAIN custom_finance = {}
  \/ /\ initial_price(property_info) % 1024000 = 0
     /\ calculate_refurb_costs(property_info, scenario_key, NoDict).total_refurb_cost % 1000 = 0

Comparables == {NoDict} \cup {[avg_price_psf |-> 250 * k] : k \in {1, 2, 4, 6}}

FinanceChoices ==
  {NoDict, [loan_to_cost |-> 70, interest_rate |-> 7, term_months |-> 12]}

Targets == {<<1, 4>>, <<1, 5>>, <<2, 5>>}

SensitivityPrices == {125000 * k : k \in 1..MaxPriceSteps}

(* round() is applied to a double: a value that is exactly half-way        *)
(* between two whole numbers is rounded to the even one, but the double    *)
(* computed for it can lie a little to either side                         *)
HalfWay(n, d) == 2 * (n % d) = d

(* the inputs of the five-factor scorer on which the doubles round as the  *)
(* exact numbers do: the total is not half-way (57.5 / 100 * 100 is        *)
(* 57.49999999999999 in doubles)                                           *)
ExactTotal(property_data, rental_data, area_data) ==
  LET scores == calculate_btr_score(property_data, rental_data, area_data).component_scores
  IN  ~HalfWay(SumOver(scores, DOMAIN scores), 100)

(* the datasets on which the weighted score is not half-way *)
ExactWeighted(amenities_data, rental_data, epc_data, land_registry_data, planning_data) ==
  LET scores == component_scores(amenities_data, rental_data, epc_data,
                                 land_registry_data, planning_data)
  IN  ~HalfWay(SumOver([k \in DOMAIN scores |-> scores[k] * location_weights[k]],
                       DOMAIN scores),
               100 * SumOver(location_weights, DOMAIN scores))

(* the inputs of the five-factor scorer; an EPC pair (current, potential), *)
(* <<>> when the figures are missing                                       *)
PropertyTypes == {"D", "F", "O", "None"}

AnnualRents == {0, 6000, 10000, 12500, 20000}

AreaScores == {-10, 0, 50, 100, 120}

PriceHistories ==
  {<<>>, <<200000, 212500>>, <<200000, 180000>>, <<200000, 300000>>}

EpcFigures == {<<>>, <<50, 80>>, <<40, 100>>, <<90, 10>>}

PropertyData ==
  {IF e = <<>>
   THEN [estimated_value |-> v, property_type |-> t, price_history |-> h]
   ELSE [estimated_value |-> v, property_type |-> t, price_history |-> h,
         epc_efficiency |-> e[1], potential_epc_efficiency |-> e[2]]
     : v \in {0, 250000}, t \in PropertyTypes, h \in PriceHistories, e \in EpcFigures}

(* the inputs of the scorer of the fixed report generator *)
InvestmentAnalyses ==
  {[gross_yield |-> y, cash_on_cash |-> c] : y \in {3, 4, 6, 8}, c \in {-1, 0, 5, 10}}

PropertyDetails ==
  {[location_quality |-> q, property_type |-> t]
     : q \in {"Excellent", "Good", "Average", "Poor", "Unknown"},
       t \in {"House", "Flat", "Bungalow"}}

DemandLevels == {"Strong", "Moderate", "Weak"}

(* the score components handed to calculate_overall_btr_score: any of the  *)
(* five keys, each with a score, also outside 0..100                       *)
ComponentScoreValues == {-20, 43, 80, 150}

ScoreComponents ==
  UNION {[ks -> ComponentScoreValues] : ks \in SUBSET DOMAIN weights}

(* the datasets of calculate_location_score; NoDict is a dataset that is   *)
(* None                                                                    *)
AmenitiesData ==
  {NoDict,
   [has_location |-> FALSE, rows |-> 0, means |-> NoDict],
   [has_location |-> TRUE, rows |-> 0, means |-> NoDict],
   [has_location |-> TRUE, rows |-> 4, means |-> [amenity_score |-> 50]],
   [has_location |-> TRUE, rows |-> 4, means |-> [amenity_score |-> 120]],
   [has_location |-> TRUE, rows |-> 4, means |-> [amenity_score |-> -10]],
   [has_location |-> TRUE, rows |-> 4,
    means |-> [food_score |-> 30, transport_score |-> 80, shopping_score |-> 20,
               healthcare_score |-> 60]]}

RentalData ==
  {NoDict,
   [has_region |-> FALSE, region_rows |-> 0, national |-> [value |-> 1000, yoy_growth |-> 30]],
   [has_region |-> TRUE, region_rows |-> 0, national |-> [value |-> 1000, yoy_growth |-> 5]],
   [has_region |-> TRUE, region_rows |-> 3, national |-> [value |-> 1000, yoy_growth |-> 30],
    region |-> [value |-> 1200, yoy_growth |-> 50]],
   [has_region |-> TRUE, region_rows |-> 3, national |-> [value |-> 1000, yoy_growth |-> 30],
    region |-> [value |-> 700, yoy_growth |-> -20]],
   [has_region |-> TRUE, region_rows |-> 3, national |-> [value |-> 1000, yoy_growth |-> 30],
    region |-> [value |-> 850, yoy_growth |-> 15]],
   [has_region |-> TRUE, region_rows |-> 3, national |-> [value |-> 1000, yoy_growth |-> 30],
    region |-> [value |-> 1600, yoy_growth |-> 15]],
   [has_region |-> TRUE, region_rows |-> 3, national |-> [value |-> 1000, yoy_growth |-> 30],
    region |-> [value |-> 500, yoy_growth |-> 15]]}

LandRegistryData ==
  {NoDict,
   [has_postcode |-> FALSE, has_date_of_transfer |-> FALSE, rows |-> 0],
   [has_postcode |-> FALSE, has_date_of_transfer |-> TRUE, rows |-> 0],
   [has_postcode |-> TRUE, has_date_of_transfer |-> TRUE, rows |-> 0],
   [has_postcode |-> TRUE, has_date_of_transfer |-> TRUE, rows |-> 20,
    avg_price |-> 500, national_avg |-> 400, annual_growth |-> 4,
    types |-> [unique_types |-> 3, has_flats |-> TRUE, has_houses |-> TRUE, flat_share |-> 40]],
   [has_postcode |-> TRUE, has_date_of_transfer |-> TRUE, rows |-> 20,
    avg_price |-> 100, national_avg |-> 400, annual_growth |-> -30],
   [has_postcode |-> TRUE, has_date_of_transfer |-> FALSE, rows |-> 8,
    avg_price |-> 1000, national_avg |-> 400,
    types |-> [unique_types |-> 1, has_flats |-> TRUE, has_houses |-> FALSE, flat_share |-> 100]]}

PlanningData ==
  {NoDict,
   [has_address |-> FALSE, rows |-> 0],
   [has_address |-> TRUE, rows |-> 0],
   [has_address |-> TRUE, rows |-> 10, residential_rows |-> 4, unit_count |-> 250],
   [has_address |-> TRUE, rows |-> 10, residential_rows |-> 10, unit_count |-> 900]}

EpcData ==
  {NoDict,
   [has_postcode |-> FALSE, rows |-> 0, means |-> NoDict],
   [has_postcode |-> TRUE, rows |-> 0, means |-> NoDict],
   [has_postcode |-> TRUE, rows |-> 5,
    means |-> [current_energy_efficiency |-> 50, efficiency_improvement |-> 15]],
   [has_postcode |-> TRUE, rows |-> 5,
    means |-> [current_energy_efficiency |-> 90, efficiency_improvement |-> -60]],
   [has_postcode |-> TRUE, rows |-> 5, means |-> [efficiency_improvement |-> 30]]}

(* the inputs of generate_property_report: the strategies of the select    *)
(* box and one that is not in scenario_map                                 *)
Strategies == DOMAIN scenario_map \cup {"Build to Rent"}

ReportPrices == {125000, 250000}

ReportPropertyTypes == {"flat", "house", "other"}

Bedrooms == 1..MaxBedrooms

(* the inputs of calculate_gdv: the purchase price, the floor area and the  *)
(* extension may be missing from property_info; -1 stands for a key that   *)
(* is left out                                                             *)
GdvProperties ==
  {[k \in {x \in {"purchase_price", "square_feet", "extension_sqft"} :
             CASE x = "purchase_price" -> p # -1
               [] x = "square_feet" -> s # -1
               [] x = "extension_sqft" -> e # -1} |->
      CASE k = "purchase_price" -> p
        [] k = "square_feet" -> s
        [] k = "extension_sqft" -> e]
     : p \in {-1, 0, 125000, 250000}, s \in {-1} \cup SquareFeet, e \in {-1, 0, 100}}

GdvComparables == Comparables \cup {[avg_price_psf |-> 0], [sample_size |-> 12]}

(* the inputs of calculate_rental_income: property_info with or without a  *)
(* purchase price, a property type and is_leasehold; GDV results in pence  *)
(* whose rent and expenses are whole pence; market data with and without a *)
(* gross yield (per cent)                                                  *)
RentalProperties ==
  {b @@ t @@ l :
     b \in {[square_feet |-> 1000]} \cup {[purchase_price |-> p, square_feet |-> 1000] : p \in {0, 192000}},
     t \in {NoDict, [property_type |-> "flat"], [property_type |-> "house"]},
     l \in {NoDict, [is_leasehold |-> TRUE], [is_leasehold |-> FALSE]}}

RentalGdvResults ==
  {[gdv |-> g * 100, refurb_cost |-> r * 100] : g \in {0, 240000, 480000}, r \in {0, 48000}}

RentalMarketData ==
  {NoDict, [average_rent |-> 1200]} \cup {[gross_yield |-> y] : y \in {0, 4, 6}}

(* the inputs of calculate_profit, pence: the four totals, the GDV and the *)
(* equity; all four totals together are 80,000 pounds, of which a GDV of   *)
(* 100,000 pounds leaves a profit of exactly 25%                           *)
ProfitPurchaseCosts == {[total_purchase_costs |-> t] : t \in {0, 5000000}}

ProfitRefurbCosts == {[total_refurb_cost |-> t] : t \in {0, 2000000}}

ProfitFinanceCosts ==
  {[total_finance_cost |-> t, equity_required |-> e] : t \in {0, 600000}, e \in {-1000000, 0, 3000000}}

ProfitSellingCosts == {[total_selling_costs |-> t] : t \in {0, 400000}}

ProfitGdvs == {0, 9999900, 10000000, 12000000}

(* the inputs of calculate_selling_costs, pence: no value, values whose    *)
(* 0.5% is below, at and above the minimum legal cost of 1,000 pounds      *)
SellingGdvs == {0, 10000000, 20000000, 24000000}

(* the inputs of predict_rental_growth: rents with and without a growth    *)
(* rate, and one dict without the annual rent; 0 to MaxYears years and the *)
(* default of 5                                                            *)
GrowthRentalData ==
  {r @@ g : r \in {[monthly_rent |-> 10, annual_rent |-> 120], [monthly_rent |-> 15, annual_rent |-> 150]},
            g \in {NoDict} \cup {[growth_rate |-> x] : x \in {-50, 0, 4, 25, 100}}}
    \cup {[monthly_rent |-> 10]}


ForecastYears == (0..MaxYears) \cup {default_years}

(* the inputs of analyze_amenities: no DataFrame, an empty one, one        *)
(* without the location column, one without a row of the location, and     *)
(* matching rows with and without categories                               *)
AmenityCategoryCounts ==
  {[transport |-> 2], [transport |-> 9, food |-> 3, cinema |-> 4],
   [transport |-> 8, food |-> 5, shopping |-> 5, healthcare |-> 5, education |-> 4,
    leisure |-> 4]}

AmenitiesFrames ==
  {NoDict,
   [rows |-> 0, has_location |-> TRUE, matches |-> 0, has_category |-> TRUE],
   [rows |-> 0, has_location |-> FALSE, matches |-> 0, has_category |-> FALSE],
   [rows |-> 30, has_location |-> FALSE, matches |-> 0, has_category |-> TRUE],
   [rows |-> 30, has_location |-> TRUE, matches |-> 0, has_category |-> TRUE],
   [rows |-> 30, has_location |-> TRUE, matches |-> 12, has_category |-> FALSE]}
    \cup {[rows |-> 30, has_location |-> TRUE, matches |-> 12, has_category |-> TRUE,
           category_counts |-> c] : c \in AmenityCategoryCounts}

(* BTRInvestmentCalculator.__init__: the five tables of a new calculator *)


(* the inputs of run_scenario_analysis: floor areas and prices for which   *)
(* the rents and the costs of every scenario are whole pence; a property   *)
(* without a price; all scenarios (the default), some of them, none, and   *)
(* a list with a key that is not in the table                              *)
AnalysisProperties ==
  {[purchase_price |-> 240000, square_feet |-> 960],
   [purchase_price |-> 480000, square_feet |-> 960],
   [purchase_price |-> 240000, square_feet |-> 960, extension_sqft |-> 120,
    property_type |-> "flat"],
   [purchase_price |-> 0, square_feet |-> 960],
   [square_feet |-> 960]}

AnalysisScenarioLists ==
  {scenario_order, <<"light_refurb", "extension">>, <<"full_refurb">>, <<>>,
   <<"light_refurb", "hmo_conversion">>}


(* the rental datasets of analyze_rental_market: ratios on both sides of   *)
(* 0.6, 0.8 and 1.5 and growth on both sides of 0 and of the cap           *)
RegionRents == {500, 600, 700, 800, 1000, 1500, 1600}

RegionGrowths == {-2, 0, 5, 15, 20}

RentalsFrames ==
  {NoDict,
   [rows |-> 0, has_region |-> TRUE, region_rows |-> 0],
   [rows |-> 40, has_region |-> FALSE, region_rows |-> 0],
   [rows |-> 40, has_region |-> TRUE, region_rows |-> 0]}
    \cup {[rows |-> 40, has_region |-> TRUE, region_rows |-> 4,
           national |-> [value |-> 1000, yoy_growth |-> 3],
           region |-> [value |-> v, yoy_growth |-> g]] : v \in RegionRents, g \in RegionGrowths}
    \cup {[rows |-> 40, has_region |-> TRUE, region_rows |-> 4,
           national |-> [value |-> 1000], region |-> [value |-> v]] : v \in RegionRents}
    \cup {[rows |-> 40, has_region |-> TRUE, region_rows |-> 4,
           national |-> [yoy_growth |-> 3], region |-> [yoy_growth |-> g]] : g \in RegionGrowths}


(* the inputs of find_property_data: addresses with and without a postcode *)
(* and a flat, the postcode argument, and the files of data/processed      *)
Addresses ==
  {"", "12 Park Row, Leeds", "Flat 3, 8 Mill Lane, Leeds LS1 4AP",
   "Flat 2, 1 Brick Lane, London E1 6AN"}

PostcodeArguments == {NoValue, "LS1 4AP"}

LandRegistryFiles ==
  {NoDict,
   [rows |-> <<>>],
   [rows |-> <<[postcode |-> "LS1 4AP", price |-> 250000, property_type |-> "T",
                date_of_transfer |-> 2019],
               [postcode |-> "LS1 4AP", price |-> 300000, property_type |-> "T",
                date_of_transfer |-> 2022],
               [postcode |-> "LS1 2AB", price |-> 180000, property_type |-> "F",
                date_of_transfer |-> 2021]>>],
   [rows |-> <<[postcode |-> "LS1 4AP", price |-> 200000, property_type |-> "F",
                date_of_transfer |-> 2021],
               [postcode |-> "E1 6AN", price |-> 500000, property_type |-> "F",
                date_of_transfer |-> 2020]>>],
   [rows |-> <<[postcode |-> "LS1 2AB", price |-> 180000, property_type |-> "F",
                date_of_transfer |-> 2021],
               [postcode |-> "LS1 3CD", price |-> 220000, property_type |-> "T",
                date_of_transfer |-> 2020],
               [postcode |-> "LS11 8PG", price |-> 150000, property_type |-> "T",
                date_of_transfer |-> 2022]>>],
   [rows |-> <<[postcode |-> "M1 1AE", price |-> 150000, property_type |-> "S",
                date_of_transfer |-> 2020]>>]}

EpcFiles ==
  {NoDict,
   [postcode |-> "LS1 4AP", rows |-> 0],
   [postcode |-> "M1 1AE", rows |-> 3, means |-> [total_floor_area |-> 250],
    first |-> [epc_efficiency |-> 60, potential_epc_efficiency |-> 80]],
   [postcode |-> "LS1 4AP", rows |-> 2, means |-> [total_floor_area |-> 250],
    first |-> [epc_efficiency |-> 50, potential_epc_efficiency |-> 65]],
   [postcode |-> "LS1 4AP", rows |-> 2, means |-> NoDict,
    first |-> [epc_efficiency |-> 40, potential_epc_efficiency |-> 90]],
   [postcode |-> "LS1 4AP", rows |-> 2, means |-> NoDict, first |-> NoDict]}


(* the amenities file and the outcomes of the LLM call of build_btr_report *)
AmenitiesFiles ==
  {NoDict,
   [rows |-> 0],
   [rows |-> 12, first_row |-> [location |-> "York", amenity_score |-> 70]],
   [rows |-> 12, first_row |-> [location |-> "Leeds LS", amenity_score |-> 80,
                                food_score |-> 30, transport_score |-> 10,
                                healthcare_score |-> 20]],
   [rows |-> 12, first_row |-> [location |-> "Leeds LS", total_amenities |-> 40]]}

LlmOutcomes ==
  {[api_type |-> NoValue],
   [api_type |-> "openai", response |-> NoDict],
   [api_type |-> "openai", response |-> [curated_value |-> 320000, confidence |-> "high"]]}

(* the reports in which every amount is a whole number of pounds and the   *)
(* total score is not half-way between two whole numbers                   *)
WholePounds(report) ==
  IF report.error # NoValue THEN TRUE
  ELSE /\ annual_rent_x25000(report.property_data.postcode,
                             report.property_data.property_type,
                             report.property_data.bedrooms,
                             report.property_data.estimated_value) % (25000 * 12) = 0
       /\ report.property_data.estimated_value % 20 = 0
       /\ ~HalfWay(SumOver(report.btr_score.component_scores,
                           DOMAIN report.btr_score.component_scores), 100)


(* the locations to geocode: not a string, a postcode of the table, a town *)
(* of the table, a name the table has not, and a name with a postcode area  *)
(* the table has not                                                        *)
Locations == {NoValue, "LS1 4AP", "Leeds", "Atlantis", "Zzyzx Q9"}

(* what the web API of a service answers: a place, no place, or an error   *)
(* of the request                                                           *)
Responses == {"found", "empty", "error"}

----------------------------------------------------------------------------
Init ==
  /\ pc = "idle"
  /\ op = "none"
  /\ arg = NoDict
  /\ res = NoDict
  /\ min_price = 0
  /\ max_price = 0
  /\ current_price = 0
  /\ iter = 0
  /\ gdv_result = NoDict
  /\ profit_result = NoDict
  /\ trials = <<>>
  /\ service = 0
  /\ called = <<>>
  /\ calculator = BTRInvestmentCalculator
  /\ earlier = NoDict

CalculateSdlt ==
  /\ pc = "idle"
  /\ \E p \in Prices :
       /\ op' = "_calculate_sdlt"
       /\ arg' = [purchase_price |-> p]
       /\ res' = [sdlt |-> calculate_sdlt(p)]
  /\ pc' = "done"
  /\ UNCHANGED <<search_vars, geocode_vars, calculator, earlier>>

CalculateStampDuty ==
  /\ pc = "idle"
  /\ \E p \in Prices, b \in BOOLEAN :
       /\ op' = "calculate_stamp_duty"
       /\ arg' = [purchase_price |-> p, is_btr |-> b]
       /\ res' = [stamp_duty |-> calculate_stamp_duty(p, b)]
  /\ pc' = "done"
  /\ UNCHANGED <<search_vars, geocode_vars, calculator, earlier>>

CalculatePurchaseCosts ==
  /\ pc = "idle"
  /\ \E p \in Prices :
       /\ op' = "calculate_purchase_costs"
       /\ arg' = [purchase_price |-> p]
       /\ res' = calculate_purchase_costs(p)
  /\ pc' = "done"
  /\ UNCHANGED <<search_vars, geocode_vars, calculator, earlier>>

CalculateRefurbCosts ==
  /\ pc = "idle"
  /\ \E property_info \in RefurbProperties, scenario_key \in ScenarioKeys,
        custom_works \in CustomWorks :
       /\ op' = "calculate_refurb_costs"
       /\ arg' = [property_info |-> property_info, scenario_key |-> scenario_key,
                  custom_works |-> custom_works]
       /\ res' = calculate_refurb_costs(property_info, scenario_key, custom_works)
  /\ pc' = "done"
  /\ UNCHANGED <<search_vars, geocode_vars, calculator, earlier>>

(* display_max_purchase_price, the price sensitivity table: the pipeline   *)
(* at one purchase price                                                   *)
PriceSensitivity ==
  /\ pc = "idle"
  /\ \E property_info \in SearchProperties, price \in SensitivityPrices,
        scenario_key \in DOMAIN scenarios, custom_finance \in FinanceChoices :
       /\ WholePence(property_info, scenario_key, custom_finance)
       /\ op' = "price_sensitivity"
       /\ arg' = [property_info |-> property_info, price |-> price,
                  scenario_key |-> scenario_key, custom_finance |-> custom_finance]
       /\ res' = evaluate_price(property_info, price, scenario_key, NoDict, custom_finance)
       /\ calculator' = calculator_after_financing(custom_finance)
  /\ pc' = "done"
  /\ UNCHANGED <<search_vars, geocode_vars, earlier>>

(* calculate_max_purchase_price up to the loop *)
MaxPriceStart ==
  /\ pc = "idle"
  /\ \E property_info \in SearchProperties, scenario_key \in DOMAIN scenarios,
        target_profit \in Targets, comparable_data \in Comparables,
        custom_finance \in FinanceChoices :
       /\ WholePence(property_info, scenario_key, custom_finance)
       /\ op' = "calculate_max_purchase_price"
       /\ arg' = [property_info |-> property_info, scenario_key |-> scenario_key,
                  target_profit |-> target_profit, comparable_data |-> comparable_data,
                  custom_finance_settings |-> custom_finance]
       /\ min_price' = 0
       /\ max_price' = initial_price(property_info) * 2
       /\ current_price' = initial_price(property_info)
  /\ res' = NoDict
  /\ iter' = 0
  /\ gdv_result' = NoDict
  /\ profit_result' = NoDict
  /\ trials' = <<>>
  /\ pc' = "loop"
  /\ UNCHANGED <<geocode_vars, calculator, earlier>>

(* one pass of the loop body *)
MaxPriceIterate ==
  /\ pc = "loop"
  /\ LET e == evaluate_price(arg.property_info, current_price, arg.scenario_key,
                             arg.comparable_data, arg.custom_finance_settings)
     IN  IF e.raised # NoValue
         THEN /\ res' = [raised |-> e.raised]
              /\ pc' = "done"
              /\ UNCHANGED <<search_vars, geocode_vars, calculator, earlier>>
         ELSE LET current_profit == e.profit_result.profit_on_cost
                  adj == adjust_price(current_profit, arg.target_profit,
                                      min_price, current_price, max_price)
              IN  /\ gdv_result' = e.gdv_result
                  /\ profit_result' = e.profit_result
                  /\ trials' = Append(trials, [price |-> current_price,
                                               profit_on_cost |-> current_profit])
                  /\ iter' = iter + 1
                  /\ res' = res
                  /\ calculator' = calculator_after_financing(arg.custom_finance_settings)
                  /\ earlier' = earlier
                  /\ IF WithinTolerance(current_profit, arg.target_profit)
                     THEN /\ pc' = "return"
                          /\ UNCHANGED <<min_price, max_price, current_price>>
                     ELSE /\ min_price' = adj.min_price
                          /\ max_price' = adj.max_price
                          /\ current_price' = adj.current_price
                          /\ pc' = IF iter + 1 = iteration_cap THEN "return" ELSE "loop"
  /\ UNCHANGED <<op, arg, geocode_vars>>

(* the return statement *)
MaxPriceReturn ==
  /\ pc = "return"
  /\ res' = [raised |-> NoValue,
             max_purchase_price |-> current_price,
             target_profit |-> arg.target_profit,
             achieved_profit |-> profit_result.profit_on_cost,
             gdv |-> gdv_result.gdv,
             total_costs |-> profit_result.total_costs,
             profit |-> profit_result.profit]
  /\ pc' = "done"
  /\ UNCHANGED <<op, arg, search_vars, geocode_vars, calculator, earlier>>

CalculateBtrScore ==
  /\ pc = "idle"
  /\ \E property_data \in PropertyData, annual_rent \in AnnualRents, area_score \in AreaScores :
       /\ ExactTotal(property_data, [annual_rent |-> annual_rent], [area_score |-> area_score])
       /\ op' = "calculate_btr_score"
       /\ arg' = [property_data |-> property_data,
                  rental_data |-> [annual_rent |-> annual_rent],
                  area_data |-> [area_score |-> area_score]]
       /\ res' = calculate_btr_score(property_data, [annual_rent |-> annual_rent],
                                     [area_score |-> area_score])
  /\ pc' = "done"
  /\ UNCHANGED <<search_vars, geocode_vars, calculator, earlier>>

FixedCalculateBtrScore ==
  /\ pc = "idle"
  /\ \E property_details \in PropertyDetails, demand_level \in DemandLevels,
        investment_analysis \in InvestmentAnalyses :
       /\ op' = "fixed_calculate_btr_score"
       /\ arg' = [property_details |-> property_details,
                  rental_data |-> [demand_level |-> demand_level],
                  investment_analysis |-> investment_analysis]
       /\ res' = fixed_calculate_btr_score(property_details, [demand_level |-> demand_level],
                                           investment_analysis)
  /\ pc' = "done"
  /\ UNCHANGED <<search_vars, geocode_vars, calculator, earlier>>

GetScoreRating ==
  /\ pc = "idle"
  /\ \E score \in 0..100 :
       /\ op' = "get_score_rating"
       /\ arg' = [score |-> score]
       /\ res' = [rating |-> get_score_rating(score)]
  /\ pc' = "done"
  /\ UNCHANGED <<search_vars, geocode_vars, calculator, earlier>>

CalculateOverallBtrScore ==
  /\ pc = "idle"
  /\ \E score_components \in ScoreComponents \cup truncates_below :
       /\ IF score_components \in truncates_below THEN TRUE
          ELSE DoubleExact(score_components)
       /\ op' = "calculate_overall_btr_score"
       /\ arg' = [score_components |-> score_components]
       /\ res' = [overall_score |-> calculate_overall_btr_score(score_components)]
  /\ pc' = "done"
  /\ UNCHANGED <<search_vars, geocode_vars, calculator, earlier>>

CalculateLocationScore ==
  /\ pc = "idle"
  /\ \E amenities_data \in AmenitiesData, rental_data \in RentalData, epc_data \in EpcData,
        land_registry_data \in LandRegistryData, planning_data \in PlanningData :
       /\ ExactWeighted(amenities_data, rental_data, epc_data, land_registry_data,
                        planning_data)
       /\ op' = "calculate_location_score"
       /\ arg' = [amenities_data |-> amenities_data, rental_data |-> rental_data,
                  epc_data |-> epc_data, land_registry_data |-> land_registry_data,
                  planning_data |-> planning_data]
       /\ res' = calculate_location_score(amenities_data, rental_data, epc_data,
                                          land_registry_data, planning_data)
  /\ pc' = "done"
  /\ UNCHANGED <<search_vars, geocode_vars, calculator, earlier>>

GeneratePropertyReport ==
  /\ pc = "idle"
  /\ \E price \in ReportPrices, prop_type \in ReportPropertyTypes, bedrooms \in Bedrooms,
        strategy \in Strategies :
       /\ op' = "generate_property_report"
       /\ arg' = [price |-> price, prop_type |-> prop_type, bedrooms |-> bedrooms,
                  strategy |-> strategy]
       /\ res' = generate_property_report(price, prop_type, bedrooms, strategy)
  /\ pc' = "done"
  /\ UNCHANGED <<search_vars, geocode_vars, calculator, earlier>>

CalculateGdv ==
  /\ pc = "idle"
  /\ \E property_info \in GdvProperties, scenario_key \in DOMAIN scenarios,
        comparable_data \in GdvComparables :
       /\ op' = "calculate_gdv"
       /\ arg' = [property_info |-> property_info, scenario_key |-> scenario_key,
                  comparable_data |-> comparable_data]
       /\ res' = calculate_gdv(property_info,
                               calculate_refurb_costs(property_info, scenario_key, NoDict),
                               comparable_data)
  /\ pc' = "done"
  /\ UNCHANGED <<search_vars, geocode_vars, calculator, earlier>>

CalculateRentalIncome ==
  /\ pc = "idle"
  /\ \E property_info \in RentalProperties, the_gdv_result \in RentalGdvResults,
        rental_market_data \in RentalMarketData :
       /\ op' = "calculate_rental_income"
       /\ arg' = [property_info |-> property_info, gdv_result |-> the_gdv_result,
                  rental_market_data |-> rental_market_data]
       /\ res' = calculate_rental_income(property_info, the_gdv_result, rental_market_data)
  /\ pc' = "done"
  /\ UNCHANGED <<search_vars, geocode_vars, calculator, earlier>>

CalculateProfit ==
  /\ pc = "idle"
  /\ \E purchase_costs \in ProfitPurchaseCosts, refurb_costs \in ProfitRefurbCosts,
        gdv \in ProfitGdvs, finance_costs \in ProfitFinanceCosts,
        selling_costs \in ProfitSellingCosts :
       /\ op' = "calculate_profit"
       /\ arg' = [purchase_costs |-> purchase_costs, refurb_costs |-> refurb_costs,
                  gdv |-> gdv, finance_costs |-> finance_costs,
                  selling_costs |-> selling_costs]
       /\ res' = calculate_profit(purchase_costs, refurb_costs, gdv, finance_costs, selling_costs)
  /\ pc' = "done"
  /\ UNCHANGED <<search_vars, geocode_vars, calculator, earlier>>

CalculateSellingCosts ==
  /\ pc = "idle"
  /\ \E gdv \in SellingGdvs :
       /\ op' = "calculate_selling_costs"
       /\ arg' = [gdv |-> gdv]
       /\ res' = calculate_selling_costs(gdv)
  /\ pc' = "done"
  /\ UNCHANGED <<search_vars, geocode_vars, calculator, earlier>>

PredictRentalGrowth ==
  /\ pc = "idle"
  /\ \E rental_data \in GrowthRentalData, years \in ForecastYears :
       /\ op' = "predict_rental_growth"
       /\ arg' = [rental_data |-> rental_data, years |-> years]
       /\ res' = predict_rental_growth(rental_data, years)
  /\ pc' = "done"
  /\ UNCHANGED <<search_vars, geocode_vars, calculator, earlier>>

AnalyzeAmenities ==
  /\ pc = "idle"
  /\ \E amenities_df \in AmenitiesFrames :
       /\ op' = "analyze_amenities"
       /\ arg' = [amenities_df |-> amenities_df]
       /\ res' = analyze_amenities(amenities_df)
  /\ pc' = "done"
  /\ UNCHANGED <<search_vars, geocode_vars, calculator, earlier>>

RunScenarioAnalysis ==
  /\ pc = "idle"
  /\ \E property_info \in AnalysisProperties, scenario_keys \in AnalysisScenarioLists :
       /\ op' = "run_scenario_analysis"
       /\ arg' = [property_info |-> property_info, scenarios |-> scenario_keys]
       /\ res' = run_scenario_analysis(property_info, scenario_keys)
  /\ pc' = "done"
  /\ UNCHANGED <<search_vars, geocode_vars, calculator, earlier>>


AnalyzeRentalMarket ==
  /\ pc = "idle"
  /\ \E rentals_df \in RentalsFrames :
       /\ op' = "analyze_rental_market"
       /\ arg' = [rentals_df |-> rentals_df]
       /\ res' = analyze_rental_market(rentals_df)
  /\ pc' = "done"
  /\ UNCHANGED <<search_vars, geocode_vars, calculator, earlier>>


FindPropertyData ==
  /\ pc = "idle"
  /\ \E address \in Addresses, postcode \in PostcodeArguments,
        land_registry_data \in LandRegistryFiles, epc_data \in EpcFiles :
       /\ op' = "find_property_data"
       /\ arg' = [address |-> address, postcode |-> postcode,
                  land_registry_data |-> land_registry_data, epc_data |-> epc_data]
       /\ res' = find_property_data(address, postcode, land_registry_data, epc_data)
  /\ pc' = "done"
  /\ UNCHANGED <<search_vars, geocode_vars, calculator, earlier>>


BuildBtrReport ==
  /\ pc = "idle"
  /\ \E address \in Addresses, postcode \in PostcodeArguments,
        land_registry_data \in LandRegistryFiles, epc_data \in EpcFiles,
        amenities_data \in AmenitiesFiles, llm \in LlmOutcomes :
       /\ WholePounds(build_btr_report(address, postcode, land_registry_data, epc_data,
                                       amenities_data, llm))
       /\ op' = "build_btr_report"
       /\ arg' = [address |-> address, postcode |-> postcode,
                  land_registry_data |-> land_registry_data, epc_data |-> epc_data,
                  amenities_data |-> amenities_data, llm |-> llm]
       /\ res' = build_btr_report(address, postcode, land_registry_data, epc_data,
                                  amenities_data, llm)
  /\ pc' = "done"
  /\ UNCHANGED <<search_vars, geocode_vars, calculator, earlier>>


(* the report page: the markdown of a report built without amenities file  *)
(* and without LLM key                                                      *)
BuildReportMarkdown ==
  /\ pc = "idle"
  /\ \E address \in Addresses, postcode \in PostcodeArguments,
        land_registry_data \in LandRegistryFiles, epc_data \in EpcFiles :
       LET report_data == build_btr_report(address, postcode, land_registry_data, epc_data,
                                           NoDict, [api_type |-> NoValue])
       IN  /\ WholePounds(report_data)
           /\ op' = "build_report_markdown"
           /\ arg' = [report_data |-> report_data]
           /\ res' = build_report_markdown(report_data)
  /\ pc' = "done"
  /\ UNCHANGED <<search_vars, geocode_vars, calculator, earlier>>


(* geocode_location: the call, before the first pass of the loop *)
GeocodeStart ==
  /\ pc = "idle"
  /\ \E location \in Locations :
       /\ op' = "geocode_location"
       /\ arg' = [location |-> location]
  /\ service' = 1
  /\ called' = <<>>
  /\ pc' = "geocoding"
  /\ UNCHANGED <<res, search_vars, calculator, earlier>>

(* one pass of the loop: the service is called; its result is returned, or *)
(* the loop goes on with the next service                                   *)
GeocodeTryService ==
  /\ pc = "geocoding"
  /\ service <= Len(services)
  /\ \E response \in Responses :
       LET outcome == call_service(services[service], arg.location, response)
       IN  /\ called' = Append(called, [service |-> services[service], outcome |-> outcome])
           /\ IF returns_result(outcome)
              THEN /\ res' = [raised |-> NoValue, result |-> outcome.result]
                   /\ pc' = "done"
                   /\ service' = service
              ELSE /\ res' = res
                   /\ pc' = pc
                   /\ service' = service + 1
  /\ UNCHANGED <<op, arg, search_vars, calculator, earlier>>

(* the return after the loop: no service had a result *)
GeocodeAllFailed ==
  /\ pc = "geocoding"
  /\ service > Len(services)
  /\ res' = [raised |-> NoValue, result |-> NoDict]
  /\ pc' = "done"
  /\ UNCHANGED <<op, arg, geocode_vars, search_vars, calculator, earlier>>

(* the caller has the result; the calculator takes the next call *)
TakeNextCall ==
  /\ pc = "done"
  /\ pc' = "idle"
  /\ op' = "none"
  /\ arg' = NoDict
  /\ res' = NoDict
  /\ min_price' = 0
  /\ max_price' = 0
  /\ current_price' = 0
  /\ iter' = 0
  /\ gdv_result' = NoDict
  /\ profit_result' = NoDict
  /\ trials' = <<>>
  /\ service' = 0
  /\ called' = <<>>
  /\ UNCHANGED calculator

(* the next call, with no note taken of the one that returned *)
NextRequest ==
  /\ TakeNextCall
  /\ UNCHANGED earlier

Next ==
  \/ CalculateSdlt
  \/ CalculateStampDuty
  \/ CalculatePurchaseCosts
  \/ CalculateRefurbCosts
  \/ PriceSensitivity
  \/ MaxPriceStart
  \/ MaxPriceIterate
  \/ MaxPriceReturn
  \/ CalculateBtrScore
  \/ FixedCalculateBtrScore
  \/ GetScoreRating
  \/ CalculateOverallBtrScore
  \/ CalculateLocationScore
  \/ GeneratePropertyReport
  \/ CalculateGdv
  \/ CalculateRentalIncome
  \/ CalculateProfit
  \/ CalculateSellingCosts
  \/ PredictRentalGrowth
  \/ AnalyzeAmenities
  \/ RunScenarioAnalysis
  \/ AnalyzeRentalMarket
  \/ FindPropertyData
  \/ BuildBtrReport
  \/ BuildReportMarkdown
  \/ GeocodeStart
  \/ GeocodeTryService
  \/ GeocodeAllFailed
  \/ NextRequest

Spec == Init /\ [][Next]_vars

----------------------------------------------------------------------------
(* The calls on one calculator, with a note of an earlier run of            *)
(* run_scenario_analysis: earlier has the arguments and the result of a run *)
(* over all scenarios that returned, and whether another call was made      *)
(* since.                                                                   *)

RememberRun ==
  /\ TakeNextCall
  /\ op = "run_scenario_analysis"
  /\ arg.scenarios = scenario_order
  /\ res.raised = NoValue
  /\ earlier = NoDict
  /\ earlier' = [arg |-> arg, res |-> res, interleaved |-> FALSE]

NoteRequest ==
  /\ TakeNextCall
  /\ earlier # NoDict
  /\ op # "run_scenario_analysis"
  /\ earlier' = [earlier EXCEPT !.interleaved = TRUE]

NextRuns ==
  \/ CalculateRefurbCosts
  \/ CalculateGdv
  \/ CalculateRentalIncome
  \/ CalculateProfit
  \/ PriceSensitivity
  \/ MaxPriceStart
  \/ MaxPriceIterate
  \/ MaxPriceReturn
  \/ RunScenarioAnalysis
  \/ NextRequest
  \/ RememberRun
  \/ NoteRequest

SpecRuns == Init /\ [][NextRuns]_vars

----------------------------------------------------------------------------
(* the duty of the bands alone, pence: every pound taxed once, at the rate *)
(* of the band it lies in                                                  *)
PortionIn(p, lo, hi) == Max(0, Min(p, hi) - lo)
BandedDuty(p) ==
    PortionIn(p, 0, 125000) * 2 + PortionIn(p, 125000, 250000) * 5
  + PortionIn(p, 250000, 925000) * 10 + PortionIn(p, 925000, 1500000) * 12
  + Max(0, p - 1500000) * 12

(* C1: for every price p >= 0 the banded part of stamp duty is the sum     *)
(* over the bands of (portion of p inside the band) x (the band's rate),   *)
(* each pound taxed once; p = 0 gives 0.                                   *)
C1_BandedOnce ==
  /\ (pc = "done" /\ op = "_calculate_sdlt") => res.sdlt = BandedDuty(arg.purchase_price)
  /\ (pc = "done" /\ op = "calculate_stamp_duty" /\ ~arg.is_btr)
       => res.stamp_duty = BandedDuty(arg.purchase_price) \div 100

(* C2: the stamp duty placed in the purchase costs of a BTR purchase is    *)
(* the banded duty plus 3% of the full price: 6,650 for 130,000 and        *)
(* 16,250 for 250,000.                                                     *)
C2_SurchargeOnFullPrice ==
  /\ (pc = "done" /\ op = "calculate_purchase_costs" /\ res.raised = NoValue)
       => res.stamp_duty = BandedDuty(arg.purchase_price) + 3 * arg.purchase_price
  /\ (pc = "done" /\ op = "calculate_stamp_duty" /\ arg.is_btr)
       => /\ res.stamp_duty = (BandedDuty(arg.purchase_price) + 3 * arg.purchase_price) \div 100
          /\ arg.purchase_price = 130000 => res.stamp_duty = 6650
          /\ arg.purchase_price = 250000 => res.stamp_duty = 16250

----------------------------------------------------------------------------
(* the scores *)

Returned(name) == pc = "done" /\ op = name

(* sum of score x weight and sum of weight over the keys, weights in       *)
(* hundredths                                                              *)
WeightedSum(scores, w, keys) == SumOver([k \in keys |-> scores[k] * w[k]], keys)

(* n / d, put between lo and hi, is less than one away from the whole      *)
(* number x                                                                *)
WholeOf(x, n, d, lo, hi) ==
  LET c == Min(Max(n, lo * d), hi * d)
  IN  Abs(x * d - c) < d

(* C3: the overall score of an aggregator is sum(score x weight) /         *)
(* sum(weight) over the components that are present and nothing else, as   *)
(* a whole number between 0 and 100; {rental: 80} alone gives 80.          *)
C3_WeightedMeanOfPresent ==
  /\ Returned("calculate_overall_btr_score") =>
       LET scores == arg.score_components
           keys == DOMAIN scores \cap DOMAIN weights
       IN  /\ keys # {} => WholeOf(res.overall_score, WeightedSum(scores, weights, keys),
                                   SumOver(weights, keys), 0, 100)
           /\ scores = [rental |-> 80] => res.overall_score = 80
  /\ Returned("calculate_location_score") =>
       LET scores == res.component_scores
           keys == DOMAIN scores \ {"base"}
       IN  keys # {} => WholeOf(res.overall_score, WeightedSum(scores, location_weights, keys),
                                100 * SumOver(location_weights, keys), 0, 100)

(* C4: the overall score of the location aggregators and of the            *)
(* five-factor scorer is a whole number from 0 to 100, whatever the        *)
(* inputs.                                                                 *)
C4_OverallWithinRange ==
  (\/ Returned("calculate_overall_btr_score")
   \/ Returned("calculate_location_score")
   \/ Returned("calculate_btr_score"))
    => res.overall_score \in 0..100

(* the fixed maximum of every component, hundredths of a point *)
FiveFactorMax == [yield |-> 2500, property_type |-> 2000, area |-> 2000, growth |-> 2000,
                  renovation |-> 1500]
LocationMax == [amenities |-> 2000, rental |-> 2500, property_value |-> 2000,
                growth |-> 2000, efficiency |-> 1500]

(* C5: every component score a scorer returns lies between 0 and the       *)
(* maximum of that component.                                              *)
C5_ComponentsWithinMax ==
  /\ Returned("calculate_btr_score") =>
       \A k \in DOMAIN res.component_scores :
         res.component_scores[k] >= 0 /\ res.component_scores[k] <= FiveFactorMax[k]
  /\ Returned("calculate_location_score") =>
       \A k \in DOMAIN res.component_scores \ {"base"} :
         res.component_scores[k] >= 0 /\ res.component_scores[k] <= LocationMax[k]

(* the one mapping of a score to its category *)
SevenBands(score) ==
  IF score >= 80 THEN "excellent"
  ELSE IF score >= 70 THEN "good"
  ELSE IF score >= 60 THEN "above_average"
  ELSE IF score >= 50 THEN "average"
  ELSE IF score >= 40 THEN "below_average"
  ELSE IF score >= 30 THEN "poor"
  ELSE "very_poor"

(* the category a displayed rating stands for *)
CategoryOf(rating) ==
  Get([Excellent |-> "excellent", Good |-> "good", Average |-> "average",
       Poor |-> "poor"],
      rating,
      IF rating = "Above Average" THEN "above_average"
      ELSE IF rating = "Below Average" THEN "below_average"
      ELSE IF rating = "Very Poor" THEN "very_poor" ELSE rating)

(* C6: every place that turns an overall score into a category uses the    *)
(* same lower bounds 80, 70, 60, 50, 40, 30, and every score gets exactly  *)
(* one of the seven categories.                                            *)
C6_SameSevenBands ==
  /\ Returned("calculate_btr_score") => res.category = SevenBands(res.overall_score)
  /\ Returned("get_score_rating") => CategoryOf(res.rating) = SevenBands(arg.score)
  /\ Returned("fixed_calculate_btr_score")
       => CategoryOf(res.rating) = SevenBands(res.total_score)

----------------------------------------------------------------------------
(* calculate_max_purchase_price *)

SearchReturned ==
  pc = "done" /\ op = "calculate_max_purchase_price" /\ res.raised = NoValue

(* a profit on cost r within 0.005 of the target t *)
Close(r, t) ==
  LET gap == IF r[1] * t[2] >= t[1] * r[2] THEN r[1] * t[2] - t[1] * r[2]
             ELSE t[1] * r[2] - r[1] * t[2]
  IN  gap < (t[2] * r[2] + 199) \div 200

(* profit on cost x <= profit on cost y; profit / cost + 1 = gdv / cost >= 0 *)
PocLeq(x, y) == RatLeq(x[1] + x[2], x[2], y[1] + y[2], y[2])

(* profit on cost x is at least as near to the target t as y is *)
GapLeq(x, y, t) ==
  RatLeq(Abs(x[1] * t[2] - t[1] * x[2]), t[2] * x[2],
         Abs(y[1] * t[2] - t[1] * y[2]), t[2] * y[2])

PocAt(a, price) ==
  evaluate_price(a.property_info, price, a.scenario_key, a.comparable_data,
                 a.custom_finance_settings).profit_result.profit_on_cost

(* the pipeline of the call is monotonic on the prices the search can try: *)
(* the multiples of initial price / 1024 inside the bracket                *)
MonotonePipeline ==
  LET step == initial_price(arg.property_info) \div 1024
  IN  \A k \in 1..2046 : PocLeq(PocAt(arg, (k + 1) * step), PocAt(arg, k * step))

C8_ReturnsBestTrial ==
  (SearchReturned /\ ~Close(res.achieved_profit, res.target_profit))
    => \E i \in DOMAIN trials :
         /\ trials[i].price = res.max_purchase_price
         /\ trials[i].profit_on_cost = res.achieved_profit
         /\ \A j \in DOMAIN trials :
              GapLeq(trials[i].profit_on_cost, trials[j].profit_on_cost, res.target_profit)

(* C9: the pipeline is monotonic in the purchase price: for every          *)
(* property, scenario and finance setting and prices p1 < p2,              *)
(* profit_on_cost(p1) >= profit_on_cost(p2).                               *)
C9_MonotonicInPrice ==
  (pc = "done" /\ op = "price_sensitivity" /\ res.raised = NoValue)
    => \A p2 \in SensitivityPrices :
         p2 > arg.price =>
           PocLeq(evaluate_price(arg.property_info, p2, arg.scenario_key, NoDict,
                                 arg.custom_finance).profit_result.profit_on_cost,
                  res.profit_result.profit_on_cost)

(* C10: calculate_refurb_costs returns contingency = 10% of subtotal,      *)
(* professional_fees = 12% of subtotal for full_refurb and extension and   *)
(* 5% otherwise, total_refurb_cost = subtotal + contingency + fees; 1000   *)
(* sq ft under light_refurb costs 86,250.                                  *)
C10_RefurbTotals ==
  (pc = "done" /\ op = "calculate_refurb_costs" /\ res.raised = NoValue)
    => /\ res.contingency * 10 = res.subtotal * 100
       /\ res.professional_fees * 100 =
            res.subtotal * 100 * (IF arg.scenario_key = "full_refurb"
                                     \/ arg.scenario_key = "extension" THEN 12 ELSE 5)
       /\ res.total_refurb_cost = res.subtotal * 100 + res.contingency + res.professional_fees
       /\ (arg.scenario_key = "light_refurb" /\ res.square_feet = 1000
           /\ arg.custom_works = NoDict) => res.total_refurb_cost = 8625000

C10_Witness ==
  /\ pc = "done"
  /\ op = "calculate_refurb_costs"
  /\ arg.scenario_key = "extension"
  /\ arg.custom_works = [kitchen |-> 1, bathroom |-> 1]
  /\ res.raised = NoValue
  /\ res.professional_fees * 100 = res.subtotal * 1200

----------------------------------------------------------------------------
(* C11: a key that is not registered is always fatal: calculate_refurb_costs *)
(* fails for a scenario key outside the scenario table and for a custom    *)
(* work outside the benchmark table, and a strategy outside the scenario   *)
(* map is not given a default scenario.                                    *)
C11_UnknownKeysFatal ==
  /\ Returned("calculate_refurb_costs") =>
       ((\/ arg.scenario_key \notin DOMAIN scenarios
         \/ \E work \in DOMAIN arg.custom_works : work \notin DOMAIN cost_benchmarks)
          => res.raised # NoValue)
  /\ Returned("generate_property_report") =>
       (arg.strategy \notin DOMAIN scenario_map => res.raised # NoValue)

(* C12: whenever calculate_gdv returns a result, its gdv is: square_feet x  *)
(* avg_price_psf when the comparable data has avg_price_psf, whatever the  *)
(* scenario; otherwise purchase price + extension_sqft x 550 for the       *)
(* extension scenario, extension_sqft being 25% of the square feet when    *)
(* not given; otherwise purchase price x (1 + value_uplift_pct of the      *)
(* scenario).  Pence.                                                      *)
C12_GdvFormula ==
  (Returned("calculate_gdv") /\ res.raised = NoValue) =>
    LET info == arg.property_info
        price == IF "purchase_price" \in DOMAIN info THEN info.purchase_price ELSE 0
        sqft == IF "square_feet" \in DOMAIN info THEN info.square_feet ELSE 1000
    IN  res.gdv =
          IF "avg_price_psf" \in DOMAIN arg.comparable_data
          THEN sqft * arg.comparable_data.avg_price_psf * 100
          ELSE IF arg.scenario_key = "extension"
          THEN IF "extension_sqft" \in DOMAIN info
               THEN price * 100 + info.extension_sqft * 550 * 100
               ELSE price * 100 + (sqft * 550 * 100) \div 4
          ELSE price * 100 + price * scenarios[arg.scenario_key].value_uplift_pct

C12_Witness ==
  /\ Returned("calculate_gdv")
  /\ res.raised = NoValue
  /\ arg.scenario_key = "extension"
  /\ arg.property_info = [purchase_price |-> 250000, square_feet |-> 1000]
  /\ arg.comparable_data = [avg_price_psf |-> 500]
  /\ res.gdv = 50000000

(* C13: calculate_rental_income returns a result whose gross annual rent   *)
(* is GDV x gross yield, the gross yield being the one of the market data  *)
(* when it has one and 5% in every other case: no market data, or market   *)
(* data without a gross yield.  Checked where the GDV and the investment   *)
(* are positive, so that only the choice of the yield is at stake.         *)
C13_DefaultYield ==
  (/\ Returned("calculate_rental_income")
   /\ arg.gdv_result.gdv > 0
   /\ Get(arg.property_info, "purchase_price", 0) > 0
   /\ "gross_yield" \in DOMAIN arg.rental_market_data => arg.rental_market_data.gross_yield > 0)
    => /\ res.raised = NoValue
       /\ res.annual_rent * 100 =
            arg.gdv_result.gdv * (IF "gross_yield" \in DOMAIN arg.rental_market_data
                                  THEN arg.rental_market_data.gross_yield ELSE 5)

(* C14: in every result of calculate_rental_income the net annual rent is  *)
(* the annual rent less the total expenses; the total expenses are a       *)
(* management fee of 10% of the annual rent, maintenance of 10% of it, a   *)
(* void cost of half a month in twelve of it, insurance of 0.5% of the     *)
(* GDV, the service charge and the ground rent; the last two are non-zero  *)
(* only for a leasehold, and a property whose is_leasehold is not given is *)
(* a leasehold exactly when its property type is flat.                     *)
C14_NetRentAndExpenses ==
  (Returned("calculate_rental_income") /\ res.raised = NoValue) =>
    LET info == arg.property_info
        leasehold == IF "is_leasehold" \in DOMAIN info THEN info.is_leasehold
                     ELSE ("property_type" \in DOMAIN info /\ info.property_type = "flat")
    IN  /\ res.net_annual_rent = res.annual_rent - res.total_expenses
        /\ res.total_expenses = res.management_fee + res.maintenance + res.void_cost
                                  + res.insurance + res.service_charge + res.ground_rent
        /\ res.management_fee * 10 = res.annual_rent
        /\ res.maintenance * 10 = res.annual_rent
        /\ res.void_cost * 24 = res.annual_rent
        /\ res.insurance * 200 = arg.gdv_result.gdv
        /\ (res.service_charge # 0 \/ res.ground_rent # 0) => leasehold
        /\ leasehold => (res.service_charge = info.square_feet * 300 /\ res.ground_rent = 25000)

C14_Witness ==
  /\ Returned("calculate_rental_income")
  /\ res.raised = NoValue
  /\ arg.property_info = [purchase_price |-> 192000, square_feet |-> 1000, property_type |-> "flat"]
  /\ arg.gdv_result.gdv = 24000000
  /\ arg.rental_market_data = NoDict
  /\ res.annual_rent = 1200000
  /\ res.total_expenses = 735000
  /\ res.net_annual_rent = 465000

(* C15: when the property value is zero or missing, the GDV stage and the  *)
(* rental income stage return a result instead of raising: calculate_gdv   *)
(* for a purchase price that is 0 or not given, calculate_rental_income    *)
(* for a GDV of 0, whose result carries the default gross yield of 5%.     *)
C15_ZeroValueReturnsDefaultYield ==
  /\ (Returned("calculate_gdv") /\ Get(arg.property_info, "purchase_price", 0) = 0
        /\ Get(arg.property_info, "square_feet", 1000) > 0)
       => res.raised = NoValue
  /\ (Returned("calculate_rental_income") /\ arg.gdv_result.gdv = 0
        /\ "gross_yield" \notin DOMAIN arg.rental_market_data)
       => (res.raised = NoValue /\ res.gross_yield = <<rental_settings.gross_yield, 100>>)

(* C16: calculate_profit does not fail on a deal without equity: for a     *)
(* positive GDV and positive costs it returns a result whose roi is the    *)
(* sentinel when the equity required is zero or less, as it is under the   *)
(* default loan to cost of 100%, and profit / equity required when the     *)
(* equity required is positive.                                            *)
C16_RoiSentinel ==
  /\ (Returned("calculate_profit") /\ arg.gdv > 0 /\ res.raised = NoValue)
       => res.roi = IF arg.finance_costs.equity_required <= 0
                    THEN <<"inf">>
                    ELSE <<res.profit, arg.finance_costs.equity_required>>
  /\ (Returned("calculate_profit") /\ arg.gdv > 0 /\ arg.finance_costs.equity_required <= 0
        /\ arg.purchase_costs.total_purchase_costs > 0)
       => res.raised = NoValue
  /\ (Returned("price_sensitivity") /\ res.raised = NoValue /\ arg.custom_finance = NoDict)
       => res.profit_result.roi = <<"inf">>

C16_Witness ==
  /\ Returned("calculate_profit")
  /\ arg.finance_costs.equity_required = 0
  /\ arg.gdv = 10000000
  /\ res.raised = NoValue
  /\ res.profit = 2000000
  /\ res.roi = <<"inf">>

(* C17: in every result of calculate_profit the total costs are the sum of *)
(* the purchase, refurb, finance and selling totals, the profit is the GDV *)
(* less the total costs, and target_profit_achieved is true exactly when   *)
(* profit / total costs >= 0.25, the value 0.25 itself included.           *)
C17_ProfitAndTarget ==
  (Returned("calculate_profit") /\ res.raised = NoValue) =>
    /\ res.total_costs = arg.purchase_costs.total_purchase_costs
                           + arg.refurb_costs.total_refurb_cost
                           + arg.finance_costs.total_finance_cost
                           + arg.selling_costs.total_selling_costs
    /\ res.profit = arg.gdv - res.total_costs
    /\ res.target_profit_achieved <=> (4 * res.profit >= res.total_costs)

C17_Witness ==
  /\ Returned("calculate_profit")
  /\ res.raised = NoValue
  /\ res.total_costs = 8000000
  /\ res.profit = 2000000
  /\ res.target_profit_achieved

(* C18: for every purchase price >= 0 calculate_purchase_costs returns a   *)
(* result with legal costs of max(1% of the price, 1,500), the fixed       *)
(* survey cost and the stamp duty; for every GDV >= 0                      *)
(* calculate_selling_costs returns a result with an agent fee of 1.5% of   *)
(* the GDV, legal costs of max(0.5% of the GDV, 1,000) and their sum as    *)
(* the total.  Pence.                                                      *)
C18_TransactionCostsTotal ==
  /\ Returned("calculate_purchase_costs") =>
       /\ res.raised = NoValue
       /\ res.legal_costs = Max(arg.purchase_price, 150000)
       /\ res.survey_costs = 100000
       /\ res.stamp_duty = calculate_sdlt(arg.purchase_price)
       /\ res.total_purchase_costs = arg.purchase_price * 100 + res.legal_costs
                                       + res.survey_costs + res.stamp_duty
  /\ Returned("calculate_selling_costs") =>
       /\ res.raised = NoValue
       /\ res.agent_fee * 1000 = arg.gdv * 15
       /\ res.legal_costs = Max(arg.gdv \div 200, 100000)
       /\ res.total_selling_costs = res.agent_fee + res.legal_costs

(* C20: predict_rental_growth with years = N >= 0 returns exactly N        *)
(* entries whose years are 1, 2, ..., N in that order; the rents of the    *)
(* first entry are the current monthly and annual rent x (1 + rate), and   *)
(* the rents of every later entry are those of the entry before x          *)
(* (1 + rate), so that entry y has current rent x (1 + rate)^y; the rate   *)
(* is the growth rate given, 4% when none is given, and 1 + rate is the    *)
(* fraction n / d in lowest terms.                                         *)
C20_CompoundedForecast ==
  (Returned("predict_rental_growth") /\ res.raised = NoValue) =>
    LET data == arg.rental_data
        pct == IF "growth_rate" \in DOMAIN data THEN data.growth_rate ELSE 4
        d == CHOOSE k \in 1..100 : /\ ((100 + pct) * k) % 100 = 0
                                    /\ \A j \in 1..(k - 1) : ((100 + pct) * j) % 100 # 0
        n == ((100 + pct) * d) \div 100
        Grown(before, after) == after = <<before[1] * n, before[2] * d>>
        f == res.forecast
    IN  /\ Len(f) = arg.years
        /\ \A y \in 1..Len(f) :
             /\ f[y].year = y
             /\ Grown(IF y = 1 THEN <<data.monthly_rent, 1>> ELSE f[y - 1].monthly_rent,
                      f[y].monthly_rent)
             /\ Grown(IF y = 1 THEN <<data.annual_rent, 1>> ELSE f[y - 1].annual_rent,
                      f[y].annual_rent)

C20_Witness ==
  /\ Returned("predict_rental_growth")
  /\ arg.rental_data = [monthly_rent |-> 10, annual_rent |-> 120]
  /\ arg.years = 3
  /\ res.raised = NoValue
  /\ Len(res.forecast) = 3
  /\ res.forecast[3].year = 3
  /\ res.forecast[3].annual_rent = <<120 * 26 * 26 * 26, 25 * 25 * 25>>

(* C21: every component scorer returns its default when its dataset is    *)
(* empty, has no row of the location or lacks the column it filters on:    *)
(* 10 for the amenities, 12.5 for the rental market, 10 for the property   *)
(* values and 7.5 for the efficiency scorer of the location score, and     *)
(* for the amenities scorer of the location report 50 when the dataset is  *)
(* missing or empty.  Hundredths of a point for the location score.        *)
C21_ScorersDefaultOnMissingData ==
  /\ Returned("analyze_amenities") =>
       ((arg.amenities_df = NoDict \/ arg.amenities_df.rows = 0) => res = 50)
  /\ Returned("calculate_location_score") =>
       LET s == res.component_scores
           a == arg.amenities_data
           r == arg.rental_data
           l == arg.land_registry_data
           e == arg.epc_data
       IN  /\ (a # NoDict /\ (~a.has_location \/ a.rows = 0)) => s.amenities = 1000
           /\ (r # NoDict /\ (~r.has_region \/ r.region_rows = 0)) => s.rental = 1250
           /\ (l # NoDict /\ (~l.has_postcode \/ l.rows = 0)) => s.property_value = 1000
           /\ (e # NoDict /\ (~e.has_postcode \/ e.rows = 0)) => s.efficiency = 750

(* C22: the calls on a calculator leave cost_benchmarks, scenarios,        *)
(* finance_settings, transaction_costs and rental_settings as __init__     *)
(* made them, and a run of run_scenario_analysis returns what an earlier   *)
(* run with the same arguments returned, whatever calls were made between  *)
(* the two.                                                                *)
C22_NoHiddenState ==
  /\ calculator = BTRInvestmentCalculator
  /\ (Returned("run_scenario_analysis") /\ earlier # NoDict /\ arg = earlier.arg)
       => res = earlier.res

C22_Witness ==
  /\ Returned("run_scenario_analysis")
  /\ earlier # NoDict
  /\ earlier.interleaved
  /\ arg = earlier.arg
  /\ res.raised = NoValue
  /\ res.best_scenario = earlier.res.best_scenario


(* C28: stamp duty is monotonically non-decreasing in the purchase price:  *)
(* the duty returned for a price is at least the duty of every lower       *)
(* price, by _calculate_sdlt and by calculate_stamp_duty with the same     *)
(* surcharge flag.                                                         *)
C28_StampDutyMonotone ==
  /\ Returned("_calculate_sdlt") =>
       \A lower \in Prices :
         lower <= arg.purchase_price => calculate_sdlt(lower) <= res.sdlt
  /\ Returned("calculate_stamp_duty") =>
       \A lower \in Prices :
         lower <= arg.purchase_price
           => calculate_stamp_duty(lower, arg.is_btr) <= res.stamp_duty


(* C30: in every result of calculate_refurb_costs the amounts of           *)
(* cost_breakdown add up to subtotal, for every scenario and every         *)
(* custom_works map, also one with a key that is one of the scenario's     *)
(* own cost keys.                                                          *)
C30_BreakdownSumsToSubtotal ==
  (Returned("calculate_refurb_costs") /\ res.raised = NoValue)
    => SumOver(res.cost_breakdown, DOMAIN res.cost_breakdown) = res.subtotal


(* C29: the record returned by calculate_max_purchase_price is             *)
(* self-consistent on every path, the return at the 10-iteration cap       *)
(* included: achieved_profit, gdv, total_costs and profit are the values   *)
(* the pipeline yields at the returned max_purchase_price.                 *)
C29_RecordOfReturnedPrice ==
  SearchReturned =>
    LET e == evaluate_price(arg.property_info, res.max_purchase_price, arg.scenario_key,
                            arg.comparable_data, arg.custom_finance_settings)
    IN  /\ e.raised = NoValue
        /\ res.gdv = e.gdv_result.gdv
        /\ res.total_costs = e.profit_result.total_costs
        /\ res.profit = e.profit_result.profit
        /\ res.achieved_profit = e.profit_result.profit_on_cost


(* the dataset with the rent column taken out: the score of the same       *)
(* location with no rent-ratio contribution                                *)
WithoutRents(rental_data) ==
  [rental_data EXCEPT
     !.national = [k \in DOMAIN @ \ {"value"} |-> @[k]],
     !.region = [k \in DOMAIN @ \ {"value"} |-> @[k]]]

RegionWithRents(rental_data) ==
  /\ rental_data # NoDict
  /\ rental_data.has_region
  /\ rental_data.region_rows > 0
  /\ "value" \in DOMAIN rental_data.region

(* C26: in the rental-market scorers a rent ratio from 0.8 to 1.5 adds a   *)
(* bonus, a ratio below 0.6 or above 1.5 yields a score lower than the     *)
(* score of the same location with no rent-ratio contribution, and the     *)
(* bonus for the yearly growth never exceeds its cap (30 points in         *)
(* analyze_rental_market, 7.5 points in calculate_rental_score).           *)
C26_RentRatioBanding ==
  /\ (Returned("analyze_rental_market") /\ RegionWithRents(arg.rentals_df)) =>
       LET local == arg.rentals_df.region.value
           national == arg.rentals_df.national.value
           without == analyze_rental_market(WithoutRents(arg.rentals_df))
       IN  /\ (5 * local >= 4 * national /\ 2 * local <= 3 * national) => res > without
           /\ (5 * local < 3 * national \/ 2 * local > 3 * national) => res < without
           /\ without - 50 <= growth_bonus_cap
  /\ (Returned("calculate_location_score") /\ RegionWithRents(arg.rental_data)) =>
       LET local == arg.rental_data.region.value
           national == arg.rental_data.national.value
           without == calculate_rental_score(WithoutRents(arg.rental_data))
       IN  /\ (5 * local >= 4 * national /\ 2 * local <= 3 * national)
                => res.component_scores.rental > without
           /\ (5 * local < 3 * national \/ 2 * local > 3 * national)
                => res.component_scores.rental < without
           /\ without - 1250 <= 750


(* the Land Registry outcome of a call: the sales at the postcode looked   *)
(* up and the sales of its postcode area                                   *)
SalesAtPostcode ==
  properties_at(arg.land_registry_data, lookup_postcode(arg.address, arg.postcode))

SalesInArea ==
  area_properties_of(arg.land_registry_data, lookup_postcode(arg.address, arg.postcode))

(* C27: find_property_data returns a record and never raises for every     *)
(* non-empty address or postcode and every Land Registry outcome (no       *)
(* dataset, sales at the postcode, sales only in the postcode area, no     *)
(* sales at all), with property_type, bedrooms, bathrooms, sq_ft,          *)
(* estimated_value and price_per_sqft in the record; when only the area    *)
(* has sales the record has the display name of a property type.           *)
C27_RecordForEveryOutcome ==
  (Returned("find_property_data") /\ (arg.address # "" \/ arg.postcode # NoValue)) =>
    /\ res # NoDict
    /\ res.raised = NoValue
    /\ {"property_type", "property_type_name", "bedrooms", "bathrooms", "sq_ft",
        "estimated_value", "price_per_sqft"} \subseteq DOMAIN res


(* C23: build_btr_report returns a full report, with btr_score,            *)
(* rental_forecast and renovation_scenarios populated, and not an error    *)
(* record, for every address that is not empty, whatever the Land          *)
(* Registry, EPC and amenities files hold and whether or not the LLM       *)
(* valuation succeeds.                                                     *)
C23_ReportAlwaysProduced ==
  (Returned("build_btr_report") /\ arg.address # "") =>
    /\ res.error = NoValue
    /\ {"btr_score", "rental_forecast", "renovation_scenarios"} \subseteq DOMAIN res
    /\ Len(res.rental_forecast) > 0
    /\ Len(res.renovation_scenarios) > 0


(* C24 *)
(* whether each scorer of the report fell back to its default: the yield   *)
(* scorer without a positive value and rent, the growth scorer without two *)
(* prices in the history, the renovation scorer without both EPC figures   *)
YieldFellBack(report_data) ==
  ~ (report_data.property_data.estimated_value > 0 /\ report_data.rental_data.annual_rent > 0)

GrowthFellBack(report_data) == Len(report_data.property_data.price_history) <= 1

RenovationFellBack(report_data) ==
  ~ ({"epc_efficiency", "potential_epc_efficiency"} \subseteq DOMAIN report_data.property_data)

Labelled(component) == \E i \in DOMAIN res.defaults : res.defaults[i] = component

(* C24: in the page of a report, yield, growth and renovation are labelled *)
(* default exactly when their scorer fell back to its default for lack of  *)
(* data.                                                                    *)
C24_LabelledIffFellBack ==
  (Returned("build_report_markdown") /\ ~ res.error_page) =>
    /\ Labelled("rental") <=> YieldFellBack(arg.report_data)
    /\ Labelled("growth") <=> GrowthFellBack(arg.report_data)
    /\ Labelled("efficiency") <=> RenovationFellBack(arg.report_data)


(* C25 *)
(* the names of the services called so far *)
CalledNames == [i \in DOMAIN called |-> called[i].service]

Yields(outcome) == outcome.raised = NoValue /\ outcome.result # NoDict

(* C25: geocode_location calls its services in the order postcodes.io,     *)
(* Nominatim, location table; it returns the result of the first service   *)
(* that yields one and has called no service after it; a service that      *)
(* raises or returns nothing is followed by the next one; the call does not *)
(* raise, and returns nothing only after all three services raised or       *)
(* returned nothing.                                                        *)
C25_FirstResultInOrder ==
  /\ op = "geocode_location" => CalledNames = SubSeq(services, 1, Len(called))
  /\ Returned("geocode_location") =>
       /\ res.raised = NoValue
       /\ \A i \in 1..(Len(called) - 1) : ~ Yields(called[i].outcome)
       /\ IF res.result # NoDict
          THEN /\ Len(called) > 0
               /\ Yields(called[Len(called)].outcome)
               /\ res.result = called[Len(called)].outcome.result
          ELSE /\ Len(called) = Len(services)
               /\ \A i \in DOMAIN called : ~ Yields(called[i].outcome)

(* Leeds is geocoded by the location table after postcodes.io and          *)
(* Nominatim returned nothing                                               *)
C25_Witness ==
  /\ Returned("geocode_location")
  /\ Len(called) = 3
  /\ res.result # NoDict
  /\ res.result.source = "mock_database"
====
